---- MODULE Spec2Model ----
(***************************************************************************)
(* LinkVault dashboard (src/src/app/page.tsx, DashboardPage): the derived  *)
(* view (categories, tags, filteredLinks), the filter handlers, the list   *)
(* fetch, the add/edit dialog, delete, JSON import and export, over a      *)
(* remote "links" table; the metadata endpoint                             *)
(* (src/src/app/api/metadata/route.ts) and the tag suggestion service      *)
(* (src/src/lib/aiService.ts).                                             *)
(*                                                                         *)
(* Strings are sequences of UTF-16 code units.  null/undefined is the      *)
(* pseudo-string NULL, which holds a code unit no string holds.            *)
(***************************************************************************)
EXTENDS Integers, Sequences, FiniteSets, TLC

VARIABLES
    user,              \* useAuth().user: NULL until the session resolves
    store,             \* rows of the remote "links" table, in insertion order
    nextId,            \* the id and the created_at the table assigns next
    links,             \* useState<LinkType[]>([]): the in-memory cache
    linksLoading,      \* useState(true)
    linksError,        \* useState(''): '' or the message of the failed fetch
    fetches,           \* list requests of fetchLinks that are in flight
    selectedCategory,  \* useState<string | null>(null)
    selectedTag,       \* useState<string | null>(null)
    searchQuery,       \* useState('')
    isImporting,       \* useState(false)
    importPc,          \* where handleFileChange is suspended
    importDoc,         \* the parsed content handleFileChange works on
    importRows,        \* linksToInsert of the insert call in flight
    dialogMode,        \* useState<'add' | 'edit' | null>(null): NoMode is null
    formLinkId,        \* useState<string | null>(null): NoId is null
    formUrl,           \* useState('')
    formTitle,         \* useState('')
    formDesc,          \* useState('')
    formTags,          \* useState(''): the comma-separated text
    formCategory,      \* useState('')
    formFaviconUrl,    \* useState<string | null>(null)
    isSubmitting,      \* useState(false)
    formError,         \* useState('')
    submits,           \* insert/update calls of handleFormSubmit in flight
    linkToDelete,      \* useState<LinkType | null>(null): NoLink is null
    isDeleting,        \* useState(false)
    deleteError,       \* useState('')
    deleteCall,        \* the id of the delete call in flight, or NoId
    isExporting,       \* useState(false)
    exportPc,          \* where handleExport is suspended
    savedFile,         \* the file saveAs wrote last, or NoFile
    toast,             \* the last notification shown
    view,              \* what the last render derived with useMemo
    isFetchingMetadata, \* useState(false)
    metaCalls,         \* calls of fetchMetadataForUrl that are in flight
    suggestingTags,    \* useState(false)
    suggestedTags,     \* useState<string[]>([])
    suggestionError,   \* useState('')
    suggestCalls,      \* calls of suggestTagsFromText that are in flight
    urlToFetch,        \* route.ts GET: searchParams.get('url'), NULL if absent
    urlWithProtocol,   \* route.ts GET: the text given to new URL
    routePc,           \* where GET is
    upstream,          \* what the fetched site did, once it did it
    response,          \* the response of GET
    aiText,            \* aiService.ts: the argument of suggestTagsFromText
    aiEnv,             \* aiService.ts: NEXT_PUBLIC_AI_API_URL and _KEY
    aiPc,              \* where suggestTagsFromText is
    aiAnswer,          \* what the AI endpoint did, once it did it
    aiTags             \* the value suggestTagsFromText returned

\* the state of the add/edit dialog
formVars == <<dialogMode, formLinkId, formUrl, formTitle, formDesc, formTags,
              formCategory, formFaviconUrl, isSubmitting, formError, submits>>

\* the state of the delete confirmation
deleteVars == <<linkToDelete, isDeleting, deleteError, deleteCall>>

\* the state of the export
exportVars == <<isExporting, exportPc, savedFile>>

\* the metadata fetch and the tag suggestions of the dialog
metaVars == <<isFetchingMetadata, metaCalls, suggestingTags, suggestedTags,
              suggestionError, suggestCalls>>

\* the metadata endpoint and the tag suggestion service
serviceVars == <<urlToFetch, urlWithProtocol, routePc, upstream, response,
                 aiText, aiEnv, aiPc, aiAnswer, aiTags>>

\* the state of the page
pageVars == <<user, store, nextId, links, linksLoading, linksError, fetches,
              selectedCategory, selectedTag, searchQuery,
              isImporting, importPc, importDoc, importRows,
              formVars, deleteVars, exportVars, toast, view, metaVars>>

\* the state of the metadata endpoint
routeVars == <<urlToFetch, urlWithProtocol, routePc, upstream, response>>

\* the state of the tag suggestion service
aiVars == <<aiText, aiEnv, aiPc, aiAnswer, aiTags>>

vars == <<user, store, nextId, links, linksLoading, linksError, fetches,
          selectedCategory, selectedTag, searchQuery,
          isImporting, importPc, importDoc, importRows,
          formVars, deleteVars, exportVars, toast, view, metaVars, serviceVars>>

----------------------------------------------------------------------------
(* Bounds of the model *)

\* longest record list the derived view is given in SpecView
MaxLinks == 3
\* most rows the remote table is given, over the whole run
MaxStore == 2
\* most list requests in flight at once
MaxFetches == 2
\* longest array SpecImport imports
MaxElements == 2
\* most remote calls in flight at once when the user starts another one
MaxInFlight == 2

----------------------------------------------------------------------------
(* Strings and arrays.  Array.prototype.filter is SelectSeq. *)

NULL == <<-1>>
EmptyStr == <<>>

\* a string is truthy in JS when it is neither null/undefined nor ''
Truthy(s) == s # NULL /\ s # EmptyStr

Range(seq) == {seq[i] : i \in DOMAIN seq}

\* Array.prototype.reverse
Reverse(seq) == [i \in DOMAIN seq |-> seq[Len(seq) + 1 - i]]

\* String.prototype.toLowerCase on the code units A..Z
ToLowerCase(s) == [i \in DOMAIN s |-> IF s[i] \in 65..90 THEN s[i] + 32 ELSE s[i]]

\* the white space String.prototype.trim strips (tab, LF, VT, FF, CR, space)
IsSpace(c) == c \in {9, 10, 11, 12, 13, 32}

RECURSIVE TrimStart(_)
TrimStart(s) ==
    IF s # <<>> /\ IsSpace(Head(s)) THEN TrimStart(Tail(s)) ELSE s

RECURSIVE TrimEnd(_)
TrimEnd(s) ==
    IF s # <<>> /\ IsSpace(s[Len(s)]) THEN TrimEnd(SubSeq(s, 1, Len(s) - 1)) ELSE s

\* String.prototype.trim
Trim(s) == TrimEnd(TrimStart(s))

\* String.prototype.includes: q occurs in s as a contiguous run
Includes(s, q) ==
    \E i \in 0..(Len(s) - Len(q)) : SubSeq(s, i + 1, i + Len(q)) = q

\* a < b by UTF-16 code units, the order of Array.prototype.sort()
RECURSIVE StrLess(_, _)
StrLess(a, b) ==
    IF b = <<>> THEN FALSE
    ELSE IF a = <<>> THEN TRUE
    ELSE IF Head(a) # Head(b) THEN Head(a) < Head(b)
    ELSE StrLess(Tail(a), Tail(b))

\* Array.prototype.sort() with no comparator, on strings
RECURSIVE InsertSorted(_, _)
InsertSorted(sorted, x) ==
    IF sorted = <<>> THEN <<x>>
    ELSE IF StrLess(x, Head(sorted)) THEN <<x>> \o sorted
    ELSE <<Head(sorted)>> \o InsertSorted(Tail(sorted), x)

RECURSIVE SortStrings(_)
\* variant: sort() left out
SortStringsOmitted(seq) == seq
SortStrings(seq) ==
    IF seq = <<>> THEN <<>>
    ELSE InsertSorted(SortStrings(SubSeq(seq, 1, Len(seq) - 1)), seq[Len(seq)])

\* Set.prototype.add on a Set kept in insertion order
SetAdd(set, x) == IF x \in Range(set) THEN set ELSE Append(set, x)

----------------------------------------------------------------------------
(* Link records.  tags of a row whose column is null is NoTags. *)

NoTags == <<NULL>>

HasTags(link) == link.tags # NoTags

----------------------------------------------------------------------------
(* Derived view: categories, tags, filteredLinks *)

\* categories: links.forEach(link => { if (link.category) add }), then sort()
RECURSIVE UniqueCategories(_)
UniqueCategories(ls) ==
    IF ls = <<>> THEN <<>>
    ELSE LET before == UniqueCategories(SubSeq(ls, 1, Len(ls) - 1))
             link == ls[Len(ls)]
         IN IF Truthy(link.category) THEN SetAdd(before, link.category) ELSE before

Categories(ls) == SortStrings(UniqueCategories(ls))

RECURSIVE AddAll(_, _)
AddAll(set, ts) ==
    IF ts = <<>> THEN set ELSE AddAll(SetAdd(set, Head(ts)), Tail(ts))

\* tags: links.forEach(link => link.tags?.forEach(tag => add)), then sort()
RECURSIVE UniqueTags(_)
UniqueTags(ls) ==
    IF ls = <<>> THEN <<>>
    ELSE LET before == UniqueTags(SubSeq(ls, 1, Len(ls) - 1))
             link == ls[Len(ls)]
         IN IF HasTags(link) THEN AddAll(before, link.tags) ELSE before

Tags(ls) == SortStrings(UniqueTags(ls))

\* s?.toLowerCase().includes(query)
FieldIncludes(s, query) == s # NULL /\ Includes(ToLowerCase(s), query)

\* variant: the category line of the search predicate left out
MatchesSearchNoCategory(link, query) ==
    \/ Includes(ToLowerCase(link.url), query)
    \/ FieldIncludes(link.title, query)
    \/ FieldIncludes(link.description, query)
    \/ /\ HasTags(link)
       /\ \E i \in DOMAIN link.tags : Includes(ToLowerCase(link.tags[i]), query)
\* the predicate of the search branch
MatchesSearch(link, query) ==
    \/ Includes(ToLowerCase(link.url), query)
    \/ FieldIncludes(link.title, query)
    \/ FieldIncludes(link.description, query)
    \/ FieldIncludes(link.category, query)
    \/ /\ HasTags(link)
       /\ \E i \in DOMAIN link.tags : Includes(ToLowerCase(link.tags[i]), query)

\* link.tags?.includes(selectedTag)
MatchesTag(link, tag) == HasTags(link) /\ tag \in Range(link.tags)

\* variant: the category is matched like a search, not by ===
MatchesCategoryLoosely(link, category) ==
    FieldIncludes(link.category, ToLowerCase(category))
\* link.category === selectedCategory
MatchesCategory(link, category) == link.category = category

\* variant: trim() left out
QueryOfUntrimmed(q) == ToLowerCase(q)
\* const query = searchQuery.toLowerCase().trim()
QueryOf(q) == Trim(ToLowerCase(q))

\* variant: the tag branch is tested before the search branch
FilteredLinksTagFirst(ls, q, tag, category) ==
    LET query == QueryOf(q)
        BySearch(link) == MatchesSearch(link, query)
        ByTag(link) == MatchesTag(link, tag)
        ByCategory(link) == MatchesCategory(link, category)
    IN IF Truthy(tag) THEN SelectSeq(ls, ByTag)
       ELSE IF Truthy(query) THEN SelectSeq(ls, BySearch)
       ELSE IF Truthy(category) THEN SelectSeq(ls, ByCategory)
       ELSE ls

\* variant: the result is returned newest last
FilteredLinksReversed(ls, q, tag, category) ==
    LET query == QueryOf(q)
        BySearch(link) == MatchesSearch(link, query)
        ByTag(link) == MatchesTag(link, tag)
        ByCategory(link) == MatchesCategory(link, category)
    IN IF Truthy(query) THEN Reverse(SelectSeq(ls, BySearch))
       ELSE IF Truthy(tag) THEN Reverse(SelectSeq(ls, ByTag))
       ELSE IF Truthy(category) THEN Reverse(SelectSeq(ls, ByCategory))
       ELSE ls

\* the useMemo of filteredLinks
FilteredLinks(ls, q, tag, category) ==
    LET query == QueryOf(q)
        BySearch(link) == MatchesSearch(link, query)
        ByTag(link) == MatchesTag(link, tag)
        ByCategory(link) == MatchesCategory(link, category)
    IN IF Truthy(query) THEN SelectSeq(ls, BySearch)
       ELSE IF Truthy(tag) THEN SelectSeq(ls, ByTag)
       ELSE IF Truthy(category) THEN SelectSeq(ls, ByCategory)
       ELSE ls

\* the heading above the cards: what it says and the text it names
Heading(q, tag, category) ==
    IF Truthy(q) THEN [kind |-> "Search results", text |-> q]
    ELSE IF Truthy(tag) THEN [kind |-> "Tag", text |-> tag]
    ELSE IF Truthy(category) THEN [kind |-> "Category", text |-> category]
    ELSE [kind |-> "All Links", text |-> EmptyStr]

\* one render: the three useMemo values for the current state, and the
\* heading
RenderView(ls, q, tag, category) ==
    [ready |-> TRUE,
     categories |-> Categories(ls),
     tags |-> Tags(ls),
     filteredLinks |-> FilteredLinks(ls, q, tag, category),
     heading |-> Heading(q, tag, category)]

NoView ==
    [ready |-> FALSE, categories |-> <<>>, tags |-> <<>>, filteredLinks |-> <<>>,
     heading |-> [kind |-> "All Links", text |-> EmptyStr]]

----------------------------------------------------------------------------
(* JSON values as JSON.parse returns them.  A field an object does not     *)
(* have reads as JUndef.  A text that is no JSON is JInvalid.              *)

JInvalid == [t |-> "invalid"]
JUndef == [t |-> "undefined"]
JNull == [t |-> "null"]
JNum == [t |-> "number"]
JStr(s) == [t |-> "string", s |-> s]
JArr(a) == [t |-> "array", a |-> a]
JLink(url, title, description, tags, category, favicon) ==
    [t |-> "object", url |-> url, title |-> title, description |-> description,
     tags |-> tags, category |-> category, favicon_url |-> favicon]

\* typeof v === 'string'
IsString(v) == v.t = "string"

\* Array.isArray(v)
IsArray(v) == v.t = "array"

JBool == [t |-> "boolean"]
\* {} as the value of a field
JObject == JLink(JUndef, JUndef, JUndef, JUndef, JUndef, JUndef)

\* link.<field> of an array element that is not null
Field(link, name) == IF link.t = "object" THEN link[name] ELSE JUndef

\* variant: a number is turned into its text, "5"
StringOrNullCoerces(v) ==
    IF IsString(v) THEN v.s ELSE IF v.t = "number" THEN <<53>> ELSE NULL

\* typeof v === 'string' ? v : null
StringOrNull(v) == IF IsString(v) THEN v.s ELSE NULL

\* (Array.isArray(link.tags)
\*    ? link.tags.filter(t => typeof t === 'string' && t.length > 0)
\*    : []).map(t => t.trim())
ImportedTags(v) ==
    IF IsArray(v)
    THEN LET IsNonEmptyString(t) == IsString(t) /\ Len(t.s) > 0
             kept == SelectSeq(v.a, IsNonEmptyString)
         IN [i \in DOMAIN kept |-> Trim(kept[i].s)]
    ELSE <<>>

\* !link.url || typeof link.url !== 'string'
BadUrl(link) ==
    LET url == Field(link, "url") IN ~(IsString(url) /\ url.s # EmptyStr)

\* the object the map callback returns for one element
ImportedRow(link, userId) ==
    [user_id |-> userId,
     url |-> Field(link, "url").s,
     title |-> StringOrNull(Field(link, "title")),
     description |-> StringOrNull(Field(link, "description")),
     tags |-> ImportedTags(Field(link, "tags")),
     category |-> StringOrNull(Field(link, "category")),
     favicon_url |-> StringOrNull(Field(link, "favicon_url"))]

\* what a toast shows: kind, text, and the index the text embeds (-1: none)
Toast(kind, text, index) == [kind |-> kind, text |-> text, index |-> index]
NoToast == Toast("none", "", -1)

\* importedLinks.map(...) throws at the first element it cannot convert:
\* reading .url of null is a TypeError, a bad url the indexed Error
FirstThrow(a) ==
    LET bad == {i \in DOMAIN a : a[i].t = "null" \/ BadUrl(a[i])}
    IN IF bad = {} THEN 0 ELSE CHOOSE i \in bad : \A j \in bad : i <= j

\* variant: the elements before the first bad one are inserted
ConvertElementsKeepsPrefix(a, userId) ==
    LET k == FirstThrow(a)
        n == IF k = 0 THEN Len(a) ELSE k - 1
    IN IF n = 0
       THEN [kind |-> "error", rows |-> <<>>,
             toast |-> Toast("error", "Import failed: Invalid data at index <index>: Missing/invalid URL.", 0)]
       ELSE [kind |-> "insert",
             rows |-> [i \in 1..n |-> ImportedRow(a[i], userId)],
             toast |-> NoToast]

\* importedLinks.map(...) and what follows it: the toast of the Error the
\* callback throws, or the rows of the insert call
ConvertElements(a, userId) ==
    LET k == FirstThrow(a)
    IN IF k # 0 /\ a[k].t = "null"
       THEN [kind |-> "error", rows |-> <<>>,
             toast |-> Toast("error", "Import failed: <TypeError reading url of null>", -1)]
       ELSE IF k # 0
       THEN [kind |-> "error", rows |-> <<>>,
             toast |-> Toast("error", "Import failed: Invalid data at index <index>: Missing/invalid URL.", k - 1)]
       ELSE [kind |-> "insert",
             rows |-> [i \in DOMAIN a |-> ImportedRow(a[i], userId)],
             toast |-> NoToast]

\* variant: a root that is no array is taken as a list of one element
ImportOutcomeWrapsRoot(doc, userId) ==
    IF doc.t = "invalid"
    THEN [kind |-> "error", rows |-> <<>>,
          toast |-> Toast("error", "Import failed: <SyntaxError of JSON.parse>", -1)]
    ELSE IF ~IsArray(doc) THEN ConvertElements(<<doc>>, userId)
    ELSE IF Len(doc.a) = 0
    THEN [kind |-> "warning", rows |-> <<>>,
          toast |-> Toast("warning", "Import file contains no links.", -1)]
    ELSE ConvertElements(doc.a, userId)

\* handleFileChange from JSON.parse up to the insert call: the toast it ends
\* with, or the rows it sends to the store
ImportOutcome(doc, userId) ==
    IF doc.t = "invalid"
    THEN [kind |-> "error", rows |-> <<>>,
          toast |-> Toast("error", "Import failed: <SyntaxError of JSON.parse>", -1)]
    ELSE IF ~IsArray(doc)
    THEN [kind |-> "error", rows |-> <<>>,
          toast |-> Toast("error", "Import failed: Invalid JSON format: Expected an array.", -1)]
    ELSE IF Len(doc.a) = 0
    THEN [kind |-> "warning", rows |-> <<>>,
          toast |-> Toast("warning", "Import file contains no links.", -1)]
    ELSE ConvertElements(doc.a, userId)

----------------------------------------------------------------------------
(* The remote "links" table *)

\* the id of the signed-in user: "u"
TheUser == <<117>>

\* the row the table keeps for an inserted object: id and created_at are
\* assigned by the table
StoredRow(r, id, createdAt) ==
    [id |-> id, user_id |-> r.user_id, url |-> r.url, title |-> r.title,
     description |-> r.description, tags |-> r.tags, category |-> r.category,
     favicon_url |-> r.favicon_url, created_at |-> createdAt]

\* .select('id, url, title, description, tags, category, created_at, favicon_url')
ListedRow(row) ==
    [id |-> row.id, url |-> row.url, title |-> row.title,
     description |-> row.description, tags |-> row.tags,
     category |-> row.category, created_at |-> row.created_at,
     favicon_url |-> row.favicon_url]

\* .insert(rows): one statement, so every row gets the same created_at;
\* ids are fresh, and time is counted in rows inserted so far
StoreInsert(st, rows, id) ==
    st \o [i \in DOMAIN rows |-> StoredRow(rows[i], id + i - 1, id)]

\* .update(linkData).match({ id }): the columns of linkData are replaced in
\* the row with that id, if the table holds one
StoreUpdate(st, linkData, id) ==
    [i \in DOMAIN st |->
        IF st[i].id = id THEN StoredRow(linkData, id, st[i].created_at) ELSE st[i]]

\* .delete().match({ id })
StoreDelete(st, id) ==
    LET Other(row) == row.id # id
    IN SelectSeq(st, Other)

\* .eq('user_id', user.id).order('created_at', { ascending: false })
ListByOwner(st, userId) ==
    LET Own(row) == row.user_id = userId
        own == Reverse(SelectSeq(st, Own))
    IN [i \in DOMAIN own |-> ListedRow(own[i])]

----------------------------------------------------------------------------
(* The files the user can pick for import: MIME type and parsed content *)

ImportFiles ==
    << [type |-> "text/plain", doc |-> JInvalid],
       [type |-> "application/json", doc |-> JInvalid],
       [type |-> "application/json",
        doc |-> JLink(JStr(<<120>>), JUndef, JUndef, JUndef, JUndef, JUndef)],
       [type |-> "application/json", doc |-> JStr(<<120>>)],
       [type |-> "application/json", doc |-> JNum],
       [type |-> "application/json", doc |-> JNull],
       [type |-> "application/json", doc |-> JArr(<<>>)],
       \* [{"url":"xa","title":"A","category":"b","tags":["a",""," b "]}]
       [type |-> "application/json",
        doc |-> JArr(<< JLink(JStr(<<120, 97>>), JStr(<<65>>), JUndef,
                              JArr(<< JStr(<<97>>), JStr(EmptyStr), JStr(<<32, 98, 32>>) >>),
                              JStr(<<98>>), JUndef) >>)],
       \* [{"url":"x","category":"","tags":[" "]}, {"url":"xa","tags":["a"]}]
       [type |-> "application/json",
        doc |-> JArr(<< JLink(JStr(<<120>>), JUndef, JNum, JArr(<< JStr(<<32>>) >>),
                              JStr(EmptyStr), JNull),
                        JLink(JStr(<<120, 97>>), JNull, JUndef, JArr(<< JStr(<<97>>) >>),
                              JUndef, JUndef) >>)],
       \* [{"url":"x"}, {"title":"A"}]
       [type |-> "application/json",
        doc |-> JArr(<< JLink(JStr(<<120>>), JUndef, JUndef, JUndef, JUndef, JUndef),
                        JLink(JUndef, JStr(<<65>>), JUndef, JUndef, JUndef, JUndef) >>)] >>

\* what the user can put into the search box: '', ' ', 'a'
SearchInputs == { EmptyStr, <<32>>, <<97>> }

----------------------------------------------------------------------------
(* The dashboard *)

\* dialogMode null
NoMode == "null"
\* no id: formLinkId null, no delete call in flight
NoId == 0
\* linkToDelete null
NoLink == [id |-> NoId]
\* nothing saved yet
NoFile == [type |-> "none", doc |-> JUndef]

\* the initial values of the dialogs and of the export: nothing open, nothing
\* in flight
Closed ==
    /\ dialogMode = NoMode
    /\ formLinkId = NoId
    /\ formUrl = EmptyStr
    /\ formTitle = EmptyStr
    /\ formDesc = EmptyStr
    /\ formTags = EmptyStr
    /\ formCategory = EmptyStr
    /\ formFaviconUrl = NULL
    /\ isSubmitting = FALSE
    /\ formError = ""
    /\ submits = <<>>
    /\ linkToDelete = NoLink
    /\ isDeleting = FALSE
    /\ deleteError = ""
    /\ deleteCall = NoId
    /\ isExporting = FALSE
    /\ exportPc = "idle"
    /\ savedFile = NoFile
    /\ isFetchingMetadata = FALSE
    /\ metaCalls = <<>>
    /\ suggestingTags = FALSE
    /\ suggestedTags = <<>>
    /\ suggestionError = ""
    /\ suggestCalls = <<>>

\* the endpoint and the suggestion service before any call
NoService ==
    /\ urlToFetch = NULL
    /\ urlWithProtocol = NULL
    /\ routePc = "idle"
    /\ upstream = [kind |-> "none"]
    /\ response = [status |-> 0]
    /\ aiText = EmptyStr
    /\ aiEnv = [apiUrl |-> FALSE, apiKey |-> FALSE]
    /\ aiPc = "idle"
    /\ aiAnswer = [kind |-> "none"]
    /\ aiTags = <<>>

\* the remote calls that are in flight
InFlight ==
    Len(fetches) + Len(submits)
    + (IF deleteCall # NoId THEN 1 ELSE 0)
    + (IF importPc # "idle" THEN 1 ELSE 0)
    + (IF exportPc # "idle" THEN 1 ELSE 0)
    + Len(metaCalls) + Len(suggestCalls)

\* the page as it is mounted
PageInit ==
    /\ user = NULL
    /\ store = <<>>
    /\ nextId = 1
    /\ links = <<>>
    /\ linksLoading = TRUE
    /\ linksError = ""
    /\ fetches = <<>>
    /\ selectedCategory = NULL
    /\ selectedTag = NULL
    /\ searchQuery = EmptyStr
    /\ isImporting = FALSE
    /\ importPc = "idle"
    /\ importDoc = JUndef
    /\ importRows = <<>>
    /\ Closed
    /\ toast = NoToast
    /\ view = RenderView(<<>>, EmptyStr, NULL, NULL)

Init == PageInit /\ NoService

\* every handler ends in a render of the new state
Rerender ==
    view' = RenderView(links', searchQuery', selectedTag', selectedCategory')

\* fetchLinks up to its await: the flags and the request.  owner is the
\* user of the render whose fetchLinks is called, which is never null
FetchLinks(owner) ==
    /\ linksLoading' = TRUE
    /\ linksError' = ""
    /\ fetches' = Append(fetches, [phase |-> "sent", owner |-> owner, data |-> <<>>])

RemoveAt(seq, i) == SubSeq(seq, 1, i - 1) \o SubSeq(seq, i + 1, Len(seq))

\* the session resolves to a user; the mount effect calls fetchLinks
AuthResolve ==
    /\ user = NULL
    /\ user' = TheUser
    /\ Len(fetches) < MaxFetches
    /\ InFlight < MaxInFlight
    /\ FetchLinks(TheUser)
    /\ UNCHANGED <<store, nextId, links, selectedCategory, selectedTag, searchQuery,
                   isImporting, importPc, importDoc, importRows, toast>>
    /\ UNCHANGED <<formVars, deleteVars, exportVars>>
    /\ UNCHANGED <<metaVars, serviceVars>>
    /\ Rerender

\* the table answers a list request: the user's rows newest first (rows of
\* one insert in reverse order of insertion), or an error
ServerList(i) ==
    /\ fetches[i].phase = "sent"
    /\ \/ fetches' = [fetches EXCEPT ![i].phase = "ok",
                                   ![i].data = ListByOwner(store, fetches[i].owner)]
       \/ fetches' = [fetches EXCEPT ![i].phase = "error"]
    /\ UNCHANGED <<user, store, nextId, links, linksLoading, linksError,
                   selectedCategory, selectedTag, searchQuery,
                   isImporting, importPc, importDoc, importRows, toast>>
    /\ UNCHANGED <<formVars, deleteVars, exportVars>>
    /\ UNCHANGED <<metaVars, serviceVars>>
    /\ Rerender

\* fetchLinks after its await, with the answer of request i
FetchReturn(i) ==
    /\ fetches[i].phase # "sent"
    /\ IF fetches[i].phase = "ok"
       THEN /\ links' = fetches[i].data
            /\ UNCHANGED linksError
       ELSE /\ linksError' = "Failed to load links."
            /\ UNCHANGED links
    /\ linksLoading' = FALSE
    /\ fetches' = RemoveAt(fetches, i)
    /\ UNCHANGED <<user, store, nextId, selectedCategory, selectedTag, searchQuery,
                   isImporting, importPc, importDoc, importRows, toast>>
    /\ UNCHANGED <<formVars, deleteVars, exportVars>>
    /\ UNCHANGED <<metaVars, serviceVars>>
    /\ Rerender

\* variant: onChange only stores the text
TypeSearchKeepsSelection(text) ==
    /\ user # NULL
    /\ searchQuery' = text
    /\ UNCHANGED <<user, store, nextId, links, linksLoading, linksError, fetches,
                   selectedCategory, selectedTag,
                   isImporting, importPc, importDoc, importRows, toast>>
    /\ UNCHANGED <<formVars, deleteVars, exportVars>>
    /\ UNCHANGED <<metaVars, serviceVars>>
    /\ Rerender

\* onChange of the search box
TypeSearch(text) ==
    /\ user # NULL
    /\ searchQuery' = text
    /\ IF Trim(text) # EmptyStr
       THEN selectedCategory' = NULL /\ selectedTag' = NULL
       ELSE UNCHANGED <<selectedCategory, selectedTag>>
    /\ UNCHANGED <<user, store, nextId, links, linksLoading, linksError, fetches,
                   isImporting, importPc, importDoc, importRows, toast>>
    /\ UNCHANGED <<formVars, deleteVars, exportVars>>
    /\ UNCHANGED <<metaVars, serviceVars>>
    /\ Rerender

\* a button of the categories list
handleSelectCategory(category) ==
    /\ user # NULL
    /\ selectedCategory' = category
    /\ selectedTag' = NULL
    /\ searchQuery' = EmptyStr
    /\ UNCHANGED <<user, store, nextId, links, linksLoading, linksError, fetches,
                   isImporting, importPc, importDoc, importRows, toast>>
    /\ UNCHANGED <<formVars, deleteVars, exportVars>>
    /\ UNCHANGED <<metaVars, serviceVars>>
    /\ Rerender

\* a button of the tags list
handleSelectTag(tag) ==
    /\ user # NULL
    /\ selectedTag' = tag
    /\ selectedCategory' = NULL
    /\ searchQuery' = EmptyStr
    /\ UNCHANGED <<user, store, nextId, links, linksLoading, linksError, fetches,
                   isImporting, importPc, importDoc, importRows, toast>>
    /\ UNCHANGED <<formVars, deleteVars, exportVars>>
    /\ UNCHANGED <<metaVars, serviceVars>>
    /\ Rerender

\* the All Links button
handleShowAllLinks ==
    /\ user # NULL
    /\ selectedCategory' = NULL
    /\ selectedTag' = NULL
    /\ searchQuery' = EmptyStr
    /\ UNCHANGED <<user, store, nextId, links, linksLoading, linksError, fetches,
                   isImporting, importPc, importDoc, importRows, toast>>
    /\ UNCHANGED <<formVars, deleteVars, exportVars>>
    /\ UNCHANGED <<metaVars, serviceVars>>
    /\ Rerender

\* the user picks a file in the dialog the Import menu item opens (the item
\* is disabled while isImporting or isExporting, and the page shows no menu
\* without a user); handleFileChange runs up to await file.text()
handleFileChange(file) ==
    /\ user # NULL
    /\ ~isImporting
    /\ ~isExporting
    /\ IF file.type # "application/json"
       THEN /\ toast' = Toast("error", "Import failed: Please select a valid JSON file.", -1)
            /\ UNCHANGED <<isImporting, importPc, importDoc>>
       ELSE /\ InFlight < MaxInFlight
            /\ isImporting' = TRUE
            /\ toast' = Toast("info", "Importing links...", -1)
            /\ importPc' = "reading"
            /\ importDoc' = file.doc
    /\ UNCHANGED <<user, store, nextId, links, linksLoading, linksError, fetches,
                   selectedCategory, selectedTag, searchQuery, importRows>>
    /\ UNCHANGED <<formVars, deleteVars, exportVars>>
    /\ UNCHANGED <<metaVars, serviceVars>>
    /\ Rerender

\* handleFileChange from JSON.parse to the insert call, or to its end
ImportParse ==
    /\ importPc = "reading"
    /\ LET out == ImportOutcome(importDoc, user)
       IN IF out.kind = "insert"
          THEN /\ importPc' = "inserting"
               /\ importRows' = out.rows
               /\ UNCHANGED <<isImporting, importDoc, toast>>
          ELSE /\ toast' = out.toast
               /\ isImporting' = FALSE
               /\ importPc' = "idle"
               /\ importDoc' = JUndef
               /\ UNCHANGED importRows
    /\ UNCHANGED <<user, store, nextId, links, linksLoading, linksError, fetches,
                   selectedCategory, selectedTag, searchQuery>>
    /\ UNCHANGED <<formVars, deleteVars, exportVars>>
    /\ UNCHANGED <<metaVars, serviceVars>>
    /\ Rerender

\* the insert succeeded: toast, fetchLinks, finally
ImportInserted ==
    /\ importPc = "inserting"
    /\ nextId + Len(importRows) - 1 <= MaxStore
    /\ Len(fetches) < MaxFetches
    /\ store' = StoreInsert(store, importRows, nextId)
    /\ nextId' = nextId + Len(importRows)
    /\ toast' = Toast("success", "Successfully imported <n> links!", Len(importRows))
    /\ FetchLinks(importRows[1].user_id)
    /\ isImporting' = FALSE
    /\ importPc' = "idle"
    /\ importDoc' = JUndef
    /\ importRows' = <<>>
    /\ UNCHANGED <<user, links, selectedCategory, selectedTag, searchQuery>>
    /\ UNCHANGED <<formVars, deleteVars, exportVars>>
    /\ UNCHANGED <<metaVars, serviceVars>>
    /\ Rerender

\* the insert failed: the catch block, finally
ImportInsertFailed ==
    /\ importPc = "inserting"
    /\ toast' = Toast("error", "Import failed: Could not process file.", -1)
    /\ isImporting' = FALSE
    /\ importPc' = "idle"
    /\ importDoc' = JUndef
    /\ importRows' = <<>>
    /\ UNCHANGED <<user, store, nextId, links, linksLoading, linksError, fetches,
                   selectedCategory, selectedTag, searchQuery>>
    /\ UNCHANGED <<formVars, deleteVars, exportVars>>
    /\ UNCHANGED <<metaVars, serviceVars>>
    /\ Rerender

----------------------------------------------------------------------------
(* Export *)

\* the filter state
filterVars == <<selectedCategory, selectedTag, searchQuery>>

\* the state of the import
importVars == <<isImporting, importPc, importDoc, importRows>>

\* JSON.stringify of a string | null column
JText(s) == IF s = NULL THEN JNull ELSE JStr(s)

\* JSON.stringify of the tags column
JTags(tags) ==
    IF tags = NoTags THEN JNull ELSE JArr([i \in DOMAIN tags |-> JStr(tags[i])])

\* the text of a timestamp: the digit of the time
TimeText(createdAt) == <<48 + createdAt>>

\* one object of JSON.stringify(data): the columns of
\* .select('url, title, description, tags, category, created_at, favicon_url')
ExportedObject(row) ==
    [t |-> "object", url |-> JStr(row.url), title |-> JText(row.title),
     description |-> JText(row.description), tags |-> JTags(row.tags),
     category |-> JText(row.category),
     created_at |-> JStr(TimeText(row.created_at)),
     favicon_url |-> JText(row.favicon_url)]

\* data of the export query: .eq('user_id', user.id), no order given
ExportData(st, userId) ==
    LET Own(row) == row.user_id = userId
    IN SelectSeq(st, Own)

\* the file saveAs writes: the document a later import of it parses
ExportFile(data) ==
    [type |-> "application/json",
     doc |-> JArr([i \in DOMAIN data |-> ExportedObject(data[i])])]

\* variant: the menu item is never disabled
handleExportAnyTime ==
    /\ user # NULL
    /\ exportPc = "idle"
    /\ InFlight < MaxInFlight
    /\ isExporting' = TRUE
    /\ toast' = Toast("info", "Preparing export...", -1)
    /\ exportPc' = "sent"
    /\ UNCHANGED <<user, store, nextId, links, linksLoading, linksError, fetches,
                   filterVars, importVars, formVars, deleteVars, savedFile>>
    /\ UNCHANGED <<metaVars, serviceVars>>
    /\ Rerender

\* the Export menu item, up to the await of the query (the item is disabled
\* while isImporting or isExporting)
handleExport ==
    /\ user # NULL
    /\ ~isImporting
    /\ ~isExporting
    /\ InFlight < MaxInFlight
    /\ isExporting' = TRUE
    /\ toast' = Toast("info", "Preparing export...", -1)
    /\ exportPc' = "sent"
    /\ UNCHANGED <<user, store, nextId, links, linksLoading, linksError, fetches,
                   filterVars, importVars, formVars, deleteVars, savedFile>>
    /\ UNCHANGED <<metaVars, serviceVars>>
    /\ Rerender

\* variant: a file is written for an empty result too
ExportAnsweredAlwaysSaves ==
    /\ exportPc = "sent"
    /\ LET data == ExportData(store, TheUser)
       IN /\ savedFile' = ExportFile(data)
          /\ toast' = Toast("success", "Exported <count> links successfully!", Len(data))
    /\ isExporting' = FALSE
    /\ exportPc' = "idle"
    /\ UNCHANGED <<user, store, nextId, links, linksLoading, linksError, fetches,
                   filterVars, importVars, formVars, deleteVars>>
    /\ UNCHANGED <<metaVars, serviceVars>>
    /\ Rerender

\* the query answered: handleExport after its await, to its end.  user.id
\* is that of the render whose handler runs: the one user there is
ExportAnswered ==
    /\ exportPc = "sent"
    /\ LET data == ExportData(store, TheUser)
       IN IF Len(data) = 0
          THEN /\ toast' = Toast("warning", "You have no links to export.", -1)
               /\ UNCHANGED savedFile
          ELSE /\ savedFile' = ExportFile(data)
               /\ toast' = Toast("success", "Exported <count> links successfully!", Len(data))
    /\ isExporting' = FALSE
    /\ exportPc' = "idle"
    /\ UNCHANGED <<user, store, nextId, links, linksLoading, linksError, fetches,
                   filterVars, importVars, formVars, deleteVars>>
    /\ UNCHANGED <<metaVars, serviceVars>>
    /\ Rerender

\* the query failed: the catch block, finally
ExportFailed ==
    /\ exportPc = "sent"
    /\ toast' = Toast("error", "Export failed: Unknown error", -1)
    /\ isExporting' = FALSE
    /\ exportPc' = "idle"
    /\ UNCHANGED <<user, store, nextId, links, linksLoading, linksError, fetches,
                   filterVars, importVars, formVars, deleteVars, savedFile>>
    /\ UNCHANGED <<metaVars, serviceVars>>
    /\ Rerender

----------------------------------------------------------------------------
(* Delete *)

\* what the page shows outside its dialogs can be used: there is a user,
\* and neither the add/edit dialog nor the delete confirmation is open
PageFree == user # NULL /\ dialogMode = NoMode /\ linkToDelete = NoLink

\* the cards are rendered
CardsShown == ~linksLoading /\ linksError = ""

\* the Delete button of a card (disabled while isDeleting or isSubmitting)
handleDeleteClick(link) ==
    /\ PageFree /\ CardsShown
    /\ ~isDeleting /\ ~isSubmitting
    /\ linkToDelete' = link
    /\ deleteError' = ""
    /\ UNCHANGED <<user, store, nextId, links, linksLoading, linksError, fetches,
                   filterVars, importVars, formVars, exportVars,
                   isDeleting, deleteCall, toast>>
    /\ UNCHANGED <<metaVars, serviceVars>>
    /\ Rerender

\* the Delete button of the confirmation (disabled while isDeleting), up to
\* the await of the delete call
confirmDelete ==
    /\ user # NULL
    /\ linkToDelete # NoLink
    /\ ~isDeleting
    /\ InFlight < MaxInFlight
    /\ isDeleting' = TRUE
    /\ deleteError' = ""
    /\ deleteCall' = linkToDelete.id
    /\ UNCHANGED <<user, store, nextId, links, linksLoading, linksError, fetches,
                   filterVars, importVars, formVars, exportVars,
                   linkToDelete, toast>>
    /\ UNCHANGED <<metaVars, serviceVars>>
    /\ Rerender

\* the confirmation is dismissed: its Cancel button (disabled while
\* isDeleting), or onOpenChange(false)
cancelDelete ==
    /\ user # NULL
    /\ linkToDelete # NoLink
    /\ linkToDelete' = NoLink
    /\ deleteError' = ""
    /\ UNCHANGED <<user, store, nextId, links, linksLoading, linksError, fetches,
                   filterVars, importVars, formVars, exportVars,
                   isDeleting, deleteCall, toast>>
    /\ UNCHANGED <<metaVars, serviceVars>>
    /\ Rerender

\* the delete call succeeded: confirmDelete after its await
DeleteDone ==
    /\ deleteCall # NoId
    /\ Len(fetches) < MaxFetches
    /\ store' = StoreDelete(store, deleteCall)
    /\ linkToDelete' = NoLink
    /\ FetchLinks(TheUser)
    /\ isDeleting' = FALSE
    /\ deleteCall' = NoId
    /\ UNCHANGED <<user, nextId, links, filterVars, importVars, formVars,
                   exportVars, deleteError, toast>>
    /\ UNCHANGED <<metaVars, serviceVars>>
    /\ Rerender

\* the delete call failed: the catch block, finally
DeleteFailed ==
    /\ deleteCall # NoId
    /\ deleteError' = "Failed to delete link."
    /\ isDeleting' = FALSE
    /\ deleteCall' = NoId
    /\ UNCHANGED <<user, store, nextId, links, linksLoading, linksError, fetches,
                   filterVars, importVars, formVars, exportVars,
                   linkToDelete, toast>>
    /\ UNCHANGED <<metaVars, serviceVars>>
    /\ Rerender

----------------------------------------------------------------------------
(* The add/edit dialog *)

\* text.split(','): 44 is the comma
RECURSIVE Split(_)
Split(text) ==
    LET commas == {i \in DOMAIN text : text[i] = 44}
    IN IF commas = {} THEN <<text>>
       ELSE LET k == CHOOSE i \in commas : \A j \in commas : i <= j
            IN <<SubSeq(text, 1, k - 1)>> \o Split(SubSeq(text, k + 1, Len(text)))

\* tags.join(', ')
RECURSIVE Join(_)
Join(tags) ==
    IF tags = <<>> THEN EmptyStr
    ELSE IF Len(tags) = 1 THEN tags[1]
    ELSE tags[1] \o <<44, 32>> \o Join(Tail(tags))

\* formTags.split(',').map(tag => tag.trim()).filter(tag => tag !== '')
TagsArray(text) ==
    LET parts == Split(text)
        trimmed == [i \in DOMAIN parts |-> Trim(parts[i])]
        NonEmpty(tag) == tag # EmptyStr
    IN SelectSeq(trimmed, NonEmpty)

\* text || null
OrNull(text) == IF text = EmptyStr THEN NULL ELSE text

\* value || ''
OrEmpty(value) == IF Truthy(value) THEN value ELSE EmptyStr

\* the call handleFormSubmit makes in the mode and with the id it sees
CallOf(mode, id) ==
    IF mode = "edit" /\ id # NoId THEN "update"
    ELSE IF mode = "add" THEN "insert"
    ELSE "none"

\* the object handleFormSubmit builds from the form
linkData ==
    [user_id |-> user, url |-> formUrl, title |-> OrNull(formTitle),
     description |-> OrNull(formDesc), tags |-> TagsArray(formTags),
     category |-> OrNull(formCategory), favicon_url |-> formFaviconUrl]

\* what the user types into the form: url, title, description, tags,
\* category.  "xa": "A", "", " a,, b ", "b";  "": " ", "B a", "", ""
FormInputs ==
    << [url |-> <<120, 97>>, title |-> <<65>>, desc |-> EmptyStr,
        tags |-> <<32, 97, 44, 44, 32, 98, 32>>, category |-> <<98>>],
       [url |-> EmptyStr, title |-> <<32>>, desc |-> <<66, 32, 97>>,
        tags |-> EmptyStr, category |-> EmptyStr] >>

resetForm ==
    /\ formLinkId' = NoId
    /\ formUrl' = EmptyStr
    /\ formTitle' = EmptyStr
    /\ formDesc' = EmptyStr
    /\ formTags' = EmptyStr
    /\ formCategory' = EmptyStr
    /\ formFaviconUrl' = NULL
    /\ formError' = ""
    /\ isSubmitting' = FALSE

\* the Add New Link button
handleOpenAddDialog ==
    /\ PageFree
    /\ resetForm
    /\ dialogMode' = "add"
    /\ UNCHANGED <<user, store, nextId, links, linksLoading, linksError, fetches,
                   filterVars, importVars, deleteVars, exportVars, submits, toast>>
    /\ UNCHANGED <<metaVars, serviceVars>>
    /\ Rerender

\* the Edit button of a card (disabled while isDeleting or isSubmitting)
handleOpenEditDialog(link) ==
    /\ PageFree /\ CardsShown
    /\ ~isDeleting /\ ~isSubmitting
    /\ formLinkId' = link.id
    /\ formUrl' = link.url
    /\ formTitle' = OrEmpty(link.title)
    /\ formDesc' = OrEmpty(link.description)
    /\ formTags' = IF link.tags = NoTags THEN EmptyStr ELSE OrEmpty(Join(link.tags))
    /\ formCategory' = OrEmpty(link.category)
    /\ formError' = ""
    /\ dialogMode' = "edit"
    /\ UNCHANGED <<user, store, nextId, links, linksLoading, linksError, fetches,
                   filterVars, importVars, deleteVars, exportVars,
                   formFaviconUrl, isSubmitting, submits, toast>>
    /\ UNCHANGED <<metaVars, serviceVars>>
    /\ Rerender

\* the dialog is dismissed: its Cancel button (disabled while isSubmitting),
\* or onOpenChange(false)
handleCloseDialog ==
    /\ user # NULL
    /\ dialogMode # NoMode
    /\ dialogMode' = NoMode
    /\ resetForm
    /\ UNCHANGED <<user, store, nextId, links, linksLoading, linksError, fetches,
                   filterVars, importVars, deleteVars, exportVars, submits, toast>>
    /\ UNCHANGED <<metaVars, serviceVars>>
    /\ Rerender

\* onChange of the inputs of the form (disabled while isSubmitting, the URL
\* and the title while isFetchingMetadata too): the user fills in the form
TypeForm(input) ==
    /\ user # NULL
    /\ dialogMode # NoMode
    /\ ~isSubmitting
    /\ ~isFetchingMetadata
    /\ formUrl' = input.url
    /\ formTitle' = input.title
    /\ formDesc' = input.desc
    /\ formTags' = input.tags
    /\ formCategory' = input.category
    /\ UNCHANGED <<user, store, nextId, links, linksLoading, linksError, fetches,
                   filterVars, importVars, deleteVars, exportVars,
                   dialogMode, formLinkId, formFaviconUrl, isSubmitting,
                   formError, submits, toast>>
    /\ UNCHANGED <<metaVars, serviceVars>>
    /\ Rerender

\* variant: the flag is set before the form is validated
handleFormSubmitFlagsFirst ==
    /\ dialogMode # NoMode
    /\ ~isSubmitting
    /\ isSubmitting' = TRUE
    /\ formError' = IF user = NULL THEN "You must be logged in."
                    ELSE IF formUrl = EmptyStr THEN "URL is required." ELSE ""
    /\ IF user # NULL /\ formUrl # EmptyStr /\ InFlight < MaxInFlight
       THEN submits' = Append(submits, [call |-> CallOf(dialogMode, formLinkId),
                                        mode |-> dialogMode, id |-> formLinkId,
                                        data |-> linkData])
       ELSE UNCHANGED submits
    /\ UNCHANGED <<user, store, nextId, links, linksLoading, linksError, fetches,
                   filterVars, importVars, deleteVars, exportVars,
                   dialogMode, formLinkId, formUrl, formTitle, formDesc,
                   formTags, formCategory, formFaviconUrl, toast>>
    /\ UNCHANGED <<metaVars, serviceVars>>
    /\ Rerender

\* onSubmit of the form (the submit button is disabled while isSubmitting),
\* up to the await of the insert or update call.  The handler tests user
\* itself, so it is modelled for the open dialog of an ended session too
handleFormSubmit ==
    /\ dialogMode # NoMode
    /\ ~isSubmitting
    /\ IF user = NULL
       THEN /\ formError' = "You must be logged in."
            /\ UNCHANGED <<isSubmitting, submits>>
       ELSE IF formUrl = EmptyStr
       THEN /\ formError' = "URL is required."
            /\ UNCHANGED <<isSubmitting, submits>>
       ELSE /\ InFlight < MaxInFlight
            /\ isSubmitting' = TRUE
            /\ formError' = ""
            /\ submits' = Append(submits, [call |-> CallOf(dialogMode, formLinkId),
                                           mode |-> dialogMode, id |-> formLinkId,
                                           data |-> linkData])
    /\ UNCHANGED <<user, store, nextId, links, linksLoading, linksError, fetches,
                   filterVars, importVars, deleteVars, exportVars,
                   dialogMode, formLinkId, formUrl, formTitle, formDesc,
                   formTags, formCategory, formFaviconUrl, toast>>
    /\ UNCHANGED <<metaVars, serviceVars>>
    /\ Rerender

\* variant: the new record is put into links, and no list is requested
SubmitDoneEditsCache(i) ==
    /\ submits[i].call = "insert"
    /\ nextId <= MaxStore
    /\ store' = StoreInsert(store, <<submits[i].data>>, nextId)
    /\ nextId' = nextId + 1
    /\ links' = <<ListedRow(StoredRow(submits[i].data, nextId, nextId))>> \o links
    /\ dialogMode' = NoMode
    /\ resetForm
    /\ submits' = RemoveAt(submits, i)
    /\ UNCHANGED <<user, linksLoading, linksError, fetches, filterVars,
                   importVars, deleteVars, exportVars, toast>>
    /\ UNCHANGED <<metaVars, serviceVars>>
    /\ Rerender

\* the call answered without error (or no call was made): handleFormSubmit
\* after its await, which closes the dialog and requests the list
SubmitDone(i) ==
    /\ Len(fetches) < MaxFetches
    /\ IF submits[i].call = "update"
       THEN /\ store' = StoreUpdate(store, submits[i].data, submits[i].id)
            /\ UNCHANGED nextId
       ELSE IF submits[i].call = "insert"
       THEN /\ nextId <= MaxStore
            /\ store' = StoreInsert(store, <<submits[i].data>>, nextId)
            /\ nextId' = nextId + 1
       ELSE UNCHANGED <<store, nextId>>
    /\ dialogMode' = NoMode
    /\ resetForm
    /\ FetchLinks(submits[i].data.user_id)
    /\ submits' = RemoveAt(submits, i)
    /\ UNCHANGED <<user, links, filterVars, importVars, deleteVars, exportVars,
                   toast>>
    /\ UNCHANGED <<metaVars, serviceVars>>
    /\ Rerender

\* variant: the failure closes the dialog
SubmitFailedCloses(i) ==
    /\ formError' = "Failed to add link. Unknown error"
    /\ isSubmitting' = FALSE
    /\ dialogMode' = NoMode
    /\ submits' = RemoveAt(submits, i)
    /\ UNCHANGED <<user, store, nextId, links, linksLoading, linksError, fetches,
                   filterVars, importVars, deleteVars, exportVars,
                   formLinkId, formUrl, formTitle, formDesc,
                   formTags, formCategory, formFaviconUrl, toast>>
    /\ UNCHANGED <<metaVars, serviceVars>>
    /\ Rerender

\* the call failed: the catch block, finally
SubmitFailed(i) ==
    /\ formError' = IF submits[i].mode = "edit"
                    THEN "Failed to update link. Unknown error"
                    ELSE "Failed to add link. Unknown error"
    /\ isSubmitting' = FALSE
    /\ submits' = RemoveAt(submits, i)
    /\ UNCHANGED <<user, store, nextId, links, linksLoading, linksError, fetches,
                   filterVars, importVars, deleteVars, exportVars,
                   dialogMode, formLinkId, formUrl, formTitle, formDesc,
                   formTags, formCategory, formFaviconUrl, toast>>
    /\ UNCHANGED <<metaVars, serviceVars>>
    /\ Rerender

\* what /api/metadata answers with: title and favicon, NULL where the JSON
\* has no such field.  "B" 66, "i" 105
MetadataAnswers ==
    { [title |-> <<66>>, favicon |-> <<105>>],
      [title |-> NULL, favicon |-> NULL] }

\* onBlur of the URL input (disabled while isSubmitting or
\* isFetchingMetadata): fetchMetadataForUrl up to its await.  The call keeps
\* the formTitle of the render it was made in
fetchMetadataForUrl ==
    /\ user # NULL
    /\ dialogMode # NoMode
    /\ ~isSubmitting /\ ~isFetchingMetadata
    /\ Trim(formUrl) # EmptyStr
    /\ Trim(formTitle) = EmptyStr
    /\ InFlight < MaxInFlight
    /\ isFetchingMetadata' = TRUE
    /\ formError' = ""
    /\ metaCalls' = Append(metaCalls, [url |-> formUrl, formTitle |-> formTitle])
    /\ UNCHANGED <<user, store, nextId, links, linksLoading, linksError, fetches,
                   filterVars, importVars, deleteVars, exportVars,
                   dialogMode, formLinkId, formUrl, formTitle, formDesc, formTags,
                   formCategory, formFaviconUrl, isSubmitting, submits, toast,
                   suggestingTags, suggestedTags, suggestionError, suggestCalls,
                   serviceVars>>
    /\ Rerender

\* the endpoint answered 2xx: fetchMetadataForUrl after its await, finally
MetadataAnswered(i, metadata) ==
    /\ metadata \in MetadataAnswers
    /\ formTitle' = IF Trim(metaCalls[i].formTitle) = EmptyStr /\ Truthy(metadata.title)
                    THEN metadata.title ELSE formTitle
    /\ formFaviconUrl' = IF Truthy(metadata.favicon) THEN metadata.favicon ELSE NULL
    /\ isFetchingMetadata' = FALSE
    /\ metaCalls' = RemoveAt(metaCalls, i)
    /\ UNCHANGED <<user, store, nextId, links, linksLoading, linksError, fetches,
                   filterVars, importVars, deleteVars, exportVars,
                   dialogMode, formLinkId, formUrl, formDesc, formTags,
                   formCategory, formError, isSubmitting, submits, toast,
                   suggestingTags, suggestedTags, suggestionError, suggestCalls,
                   serviceVars>>
    /\ Rerender

\* the endpoint answered with an error status, or the call failed: the
\* catch block, finally
MetadataFailed(i) ==
    /\ isFetchingMetadata' = FALSE
    /\ metaCalls' = RemoveAt(metaCalls, i)
    /\ UNCHANGED <<user, store, nextId, links, linksLoading, linksError, fetches,
                   filterVars, importVars, formVars, deleteVars, exportVars, toast,
                   suggestingTags, suggestedTags, suggestionError, suggestCalls,
                   serviceVars>>
    /\ Rerender

\* what suggestTagsFromText returns: [], ['a'], ['b', 'a']
SuggestionLists == { <<>>, << <<97>> >>, << <<98>>, <<97>> >> }

\* formDesc || formTitle || formUrl
textToAnalyze ==
    IF formDesc # EmptyStr THEN formDesc
    ELSE IF formTitle # EmptyStr THEN formTitle ELSE formUrl

\* the Suggest Tags button (disabled while suggestingTags or isSubmitting),
\* up to the await of suggestTagsFromText
handleSuggestTags ==
    /\ user # NULL
    /\ dialogMode # NoMode
    /\ ~suggestingTags /\ ~isSubmitting
    /\ IF textToAnalyze = EmptyStr
       THEN /\ suggestionError' = "Please enter a Description, Title, or URL first."
            /\ UNCHANGED <<suggestingTags, suggestedTags, suggestCalls>>
       ELSE /\ InFlight < MaxInFlight
            /\ suggestingTags' = TRUE
            /\ suggestionError' = ""
            /\ suggestedTags' = <<>>
            /\ suggestCalls' = Append(suggestCalls, textToAnalyze)
    /\ UNCHANGED <<user, store, nextId, links, linksLoading, linksError, fetches,
                   filterVars, importVars, formVars, deleteVars, exportVars, toast,
                   isFetchingMetadata, metaCalls, serviceVars>>
    /\ Rerender

\* variant: the flag is left set when no tag was suggested
SuggestReturnedKeepsFlag(i, tags) ==
    /\ tags \in SuggestionLists
    /\ suggestedTags' = tags
    /\ suggestionError' = IF tags = <<>>
                          THEN "Couldn't suggest any tags. Try adding more details."
                          ELSE suggestionError
    /\ suggestingTags' = (tags = <<>>)
    /\ suggestCalls' = RemoveAt(suggestCalls, i)
    /\ UNCHANGED <<user, store, nextId, links, linksLoading, linksError, fetches,
                   filterVars, importVars, formVars, deleteVars, exportVars, toast,
                   isFetchingMetadata, metaCalls, serviceVars>>
    /\ Rerender

\* suggestTagsFromText returned (it does not throw): handleSuggestTags after
\* its await, finally
SuggestReturned(i, tags) ==
    /\ tags \in SuggestionLists
    /\ suggestedTags' = tags
    /\ suggestionError' = IF tags = <<>>
                          THEN "Couldn't suggest any tags. Try adding more details."
                          ELSE suggestionError
    /\ suggestingTags' = FALSE
    /\ suggestCalls' = RemoveAt(suggestCalls, i)
    /\ UNCHANGED <<user, store, nextId, links, linksLoading, linksError, fetches,
                   filterVars, importVars, formVars, deleteVars, exportVars, toast,
                   isFetchingMetadata, metaCalls, serviceVars>>
    /\ Rerender

\* a suggested tag is clicked (the buttons are rendered in the open dialog)
handleAddSuggestedTag(tagToAdd) ==
    /\ user # NULL
    /\ dialogMode # NoMode
    /\ tagToAdd \in Range(suggestedTags)
    /\ formTags' = IF tagToAdd \in Range(TagsArray(formTags)) THEN formTags
                   ELSE Join(Append(TagsArray(formTags), tagToAdd))
    /\ suggestedTags' = SelectSeq(suggestedTags, LAMBDA t : t # tagToAdd)
    /\ UNCHANGED <<user, store, nextId, links, linksLoading, linksError, fetches,
                   filterVars, importVars, deleteVars, exportVars,
                   dialogMode, formLinkId, formUrl, formTitle, formDesc,
                   formCategory, formFaviconUrl, isSubmitting, formError, submits,
                   toast, isFetchingMetadata, metaCalls, suggestingTags,
                   suggestionError, suggestCalls, serviceVars>>
    /\ Rerender

\* onAuthStateChange with no session: the user signed out elsewhere or the
\* session expired
SessionEnd ==
    /\ user # NULL
    /\ user' = NULL
    /\ UNCHANGED <<store, nextId, links, linksLoading, linksError, fetches,
                   filterVars, importVars, formVars, deleteVars, exportVars,
                   toast>>
    /\ UNCHANGED <<metaVars, serviceVars>>
    /\ Rerender

Next ==
    \/ AuthResolve
    \/ \E i \in DOMAIN fetches : ServerList(i)
    \/ \E i \in DOMAIN fetches : FetchReturn(i)
    \/ \E text \in SearchInputs : TypeSearch(text)
    \/ \E category \in Range(view.categories) : handleSelectCategory(category)
    \/ \E tag \in Range(view.tags) : handleSelectTag(tag)
    \/ handleShowAllLinks
    \/ \E f \in DOMAIN ImportFiles : handleFileChange(ImportFiles[f])
    \/ ImportParse
    \/ ImportInserted
    \/ ImportInsertFailed

Spec == Init /\ [][Next]_vars

----------------------------------------------------------------------------
(* The dashboard with its dialogs: SpecCrud is the list, the add/edit      *)
(* dialog, the delete confirmation and the import of two of the files.     *)

\* the file imported in SpecCrud: the eighth of ImportFiles
CrudFiles == {8}

CrudNext ==
    \/ AuthResolve
    \/ \E i \in DOMAIN fetches : ServerList(i)
    \/ \E i \in DOMAIN fetches : FetchReturn(i)
    \/ handleOpenAddDialog
    \/ \E i \in DOMAIN view.filteredLinks : handleOpenEditDialog(view.filteredLinks[i])
    \/ handleCloseDialog
    \/ \E p \in DOMAIN FormInputs : TypeForm(FormInputs[p])
    \/ handleFormSubmit
    \/ \E i \in DOMAIN submits : SubmitDone(i)
    \/ \E i \in DOMAIN submits : SubmitFailed(i)
    \/ \E i \in DOMAIN view.filteredLinks : handleDeleteClick(view.filteredLinks[i])
    \/ confirmDelete
    \/ cancelDelete
    \/ DeleteDone
    \/ DeleteFailed
    \/ \E f \in CrudFiles : handleFileChange(ImportFiles[f])
    \/ ImportParse
    \/ ImportInserted
    \/ ImportInsertFailed

SpecCrud == Init /\ [][CrudNext]_vars

\* the add/edit dialog alone, with a session that can end
FormNext ==
    \/ AuthResolve
    \/ SessionEnd
    \/ \E i \in DOMAIN fetches : ServerList(i)
    \/ \E i \in DOMAIN fetches : FetchReturn(i)
    \/ handleOpenAddDialog
    \/ \E i \in DOMAIN view.filteredLinks : handleOpenEditDialog(view.filteredLinks[i])
    \/ handleCloseDialog
    \/ \E p \in DOMAIN FormInputs : TypeForm(FormInputs[p])
    \/ handleFormSubmit
    \/ \E i \in DOMAIN submits : SubmitDone(i)
    \/ \E i \in DOMAIN submits : SubmitFailed(i)

SpecForm == Init /\ [][FormNext]_vars

\* what the user types in SpecMeta: a URL with the title left empty, "x":
\* "", "", "a", ""
MetaInputs ==
    << [url |-> <<120>>, title |-> EmptyStr, desc |-> EmptyStr,
        tags |-> <<97>>, category |-> EmptyStr] >>

\* the add/edit dialog with the metadata fetch of its URL input
MetaNext ==
    \/ AuthResolve
    \/ \E i \in DOMAIN fetches : ServerList(i)
    \/ \E i \in DOMAIN fetches : FetchReturn(i)
    \/ handleOpenAddDialog
    \/ \E i \in DOMAIN view.filteredLinks : handleOpenEditDialog(view.filteredLinks[i])
    \/ handleCloseDialog
    \/ \E p \in DOMAIN MetaInputs : TypeForm(MetaInputs[p])
    \/ fetchMetadataForUrl
    \/ \E i \in DOMAIN metaCalls : \E m \in MetadataAnswers : MetadataAnswered(i, m)
    \/ \E i \in DOMAIN metaCalls : MetadataFailed(i)
    \/ handleFormSubmit
    \/ \E i \in DOMAIN submits : SubmitDone(i)
    \/ \E i \in DOMAIN submits : SubmitFailed(i)

SpecMeta == Init /\ [][MetaNext]_vars

\* the sidebar with the import that fills the table and the delete that
\* empties it
SelectNext ==
    \/ AuthResolve
    \/ \E i \in DOMAIN fetches : ServerList(i)
    \/ \E i \in DOMAIN fetches : FetchReturn(i)
    \/ \E category \in Range(view.categories) : PageFree /\ handleSelectCategory(category)
    \/ \E tag \in Range(view.tags) : PageFree /\ handleSelectTag(tag)
    \/ PageFree /\ handleShowAllLinks
    \/ \E f \in CrudFiles : handleFileChange(ImportFiles[f])
    \/ ImportParse
    \/ ImportInserted
    \/ ImportInsertFailed
    \/ \E i \in DOMAIN view.filteredLinks : handleDeleteClick(view.filteredLinks[i])
    \/ confirmDelete
    \/ cancelDelete
    \/ DeleteDone
    \/ DeleteFailed

SpecSelect == Init /\ [][SelectNext]_vars

\* the files chosen in a session with every operation that holds a busy flag
LiveFiles == {2, 7, 8}

\* the lists the suggestion service answers with in that session
LiveSuggestions == { <<>>, << <<97>> >> }

\* the rows the user creates in that session
LiveRows == 1

\* no call is awaiting its answer
Idle == InFlight = 0

\* every operation that holds a busy flag, each started when no call is
\* awaiting its answer
LiveNext ==
    \/ AuthResolve
    \/ \E i \in DOMAIN fetches : ServerList(i)
    \/ \E i \in DOMAIN fetches : FetchReturn(i)
    \/ handleOpenAddDialog
    \/ handleCloseDialog
    \/ TypeForm(MetaInputs[1])
    \/ Idle /\ fetchMetadataForUrl
    \/ \E i \in DOMAIN metaCalls : MetadataAnswered(i, [title |-> NULL, favicon |-> NULL])
    \/ \E i \in DOMAIN metaCalls : MetadataFailed(i)
    \/ Idle /\ handleSuggestTags
    \/ \E i \in DOMAIN suggestCalls : \E tags \in LiveSuggestions : SuggestReturned(i, tags)
    \/ \E t \in DOMAIN suggestedTags : handleAddSuggestedTag(suggestedTags[t])
    \/ Idle /\ nextId <= LiveRows /\ handleFormSubmit
    \/ \E i \in DOMAIN submits : SubmitDone(i)
    \/ \E i \in DOMAIN submits : SubmitFailed(i)
    \/ \E i \in DOMAIN view.filteredLinks : handleDeleteClick(view.filteredLinks[i])
    \/ Idle /\ confirmDelete
    \/ cancelDelete
    \/ DeleteDone
    \/ DeleteFailed
    \/ \E f \in LiveFiles :
         Idle /\ nextId <= LiveRows /\ PageFree /\ handleFileChange(ImportFiles[f])
    \/ ImportParse
    \/ ImportInserted
    \/ ImportInsertFailed
    \/ Idle /\ PageFree /\ handleExport
    \/ ExportAnswered
    \/ ExportFailed

\* every remote call is answered, and every handler that can go on does
Answered ==
    /\ WF_vars(\E i \in DOMAIN fetches : ServerList(i))
    /\ WF_vars(\E i \in DOMAIN fetches : FetchReturn(i))
    /\ WF_vars(\E i \in DOMAIN metaCalls :
                 MetadataFailed(i) \/ MetadataAnswered(i, [title |-> NULL, favicon |-> NULL]))
    /\ WF_vars(\E i \in DOMAIN suggestCalls : \E tags \in LiveSuggestions :
                 SuggestReturned(i, tags))
    /\ WF_vars(\E i \in DOMAIN submits : SubmitDone(i) \/ SubmitFailed(i))
    /\ WF_vars(DeleteDone \/ DeleteFailed)
    /\ WF_vars(ImportParse)
    /\ WF_vars(ImportInserted \/ ImportInsertFailed)
    /\ WF_vars(ExportAnswered \/ ExportFailed)

SpecLive == Init /\ [][LiveNext]_vars /\ Answered

\* the file imported in SpecPorting besides the saved one: the eighth of
\* ImportFiles, one record with every kind of tag
PortingFiles == {8}

\* import and export, with the delete that empties the table in between
PortingNext ==
    \/ AuthResolve
    \/ \E i \in DOMAIN fetches : ServerList(i)
    \/ \E i \in DOMAIN fetches : FetchReturn(i)
    \/ \E f \in PortingFiles : handleFileChange(ImportFiles[f])
    \/ savedFile # NoFile /\ handleFileChange(savedFile)
    \/ ImportParse
    \/ ImportInserted
    \/ ImportInsertFailed
    \/ handleExport
    \/ ExportAnswered
    \/ ExportFailed
    \/ \E i \in DOMAIN view.filteredLinks : handleDeleteClick(view.filteredLinks[i])
    \/ confirmDelete
    \/ cancelDelete
    \/ DeleteDone
    \/ DeleteFailed

SpecPorting == Init /\ [][PortingNext]_vars

----------------------------------------------------------------------------
(* The metadata endpoint (src/src/app/api/metadata/route.ts, GET).         *)
(* "h" 104, "t" 116, "p" 112, "s" 115, ":" 58, "/" 47, "f" 102, "H" 72,    *)
(* "T" 84, "P" 80, "8" 56, "i" 105                                         *)

Http == <<104, 116, 116, 112, 58, 47, 47>>
Https == <<104, 116, 116, 112, 115, 58, 47, 47>>

\* String.prototype.startsWith
StartsWith(s, prefix) ==
    Len(s) >= Len(prefix) /\ SubSeq(s, 1, Len(prefix)) = prefix

\* urlWithProtocol: the parameter, with http:// put before it unless it
\* starts with http:// or https://
UrlWithProtocol(u) ==
    IF StartsWith(u, Http) \/ StartsWith(u, Https) THEN u ELSE Http \o u

\* new URL(u) for a text that starts with http:// or https://: the scheme,
\* the authority up to the first "/", its host and its port
SchemeOf(u) == IF StartsWith(u, Https) THEN Https ELSE Http

AfterScheme(u) == SubSeq(u, Len(SchemeOf(u)) + 1, Len(u))

AuthorityOf(u) ==
    LET r == AfterScheme(u)
        slashes == {i \in DOMAIN r : r[i] = 47}
    IN  IF slashes = {} THEN r
        ELSE SubSeq(r, 1, (CHOOSE i \in slashes : \A j \in slashes : i <= j) - 1)

HostOf(u) ==
    LET a == AuthorityOf(u)
        colons == {i \in DOMAIN a : a[i] = 58}
    IN  IF colons = {} THEN a
        ELSE SubSeq(a, 1, (CHOOSE i \in colons : \A j \in colons : i >= j) - 1)

PortOf(u) ==
    SubSeq(AuthorityOf(u), Len(HostOf(u)) + 2, Len(AuthorityOf(u)))

\* new URL(u) does not throw: there is a host, without a space, and the
\* port is digits
ParsesAsUrl(u) ==
    /\ HostOf(u) # <<>>
    /\ \A i \in DOMAIN HostOf(u) : HostOf(u)[i] # 32
    /\ \A i \in DOMAIN PortOf(u) : PortOf(u)[i] \in 48..57

\* validatedUrl.origin
OriginOf(u) ==
    SchemeOf(u) \o ToLowerCase(HostOf(u))
    \o (IF PortOf(u) = <<>> THEN <<>> ELSE <<58>> \o PortOf(u))

\* what the endpoint is asked for: no parameter, '', 'x', 'x/i', 'x:8',
\* 'x y', 'http://', 'http://x', 'https://x', 'https://x:8/i', 'ftp://x',
\* 'HTTP://x'
RouteUrls ==
    { NULL, EmptyStr, <<120>>, <<120, 47, 105>>, <<120, 58, 56>>,
      <<120, 32, 121>>, Http, Http \o <<120>>, Https \o <<120>>,
      Https \o <<120, 58, 56, 47, 105>>,
      <<102, 116, 112, 58, 47, 47, 120>>, <<72, 84, 84, 80, 58, 47, 47, 120>> }

\* the pages a site answers with: the text of <title>, the content of
\* og:title, of the description and of og:description, the href of the icon
\* link; NULL where the element is missing
Page(title, ogTitle, description, ogDescription, icon) ==
    [title |-> title, ogTitle |-> ogTitle, description |-> description,
     ogDescription |-> ogDescription, icon |-> icon]

Pages ==
    { Page(<<65>>, <<66>>, <<97>>, NULL, <<47, 105>>),
      Page(EmptyStr, <<66>>, NULL, <<98>>, NULL),
      Page(NULL, NULL, NULL, NULL, Https \o <<120, 47, 105>>),
      Page(NULL, NULL, EmptyStr, NULL, EmptyStr) }

\* what the fetched site does: a response, no response within 5 seconds, or
\* a failure of the connection or of reading the body
Upstreams ==
    { [kind |-> "response", status |-> 200, page |-> p] : p \in Pages }
    \cup { [kind |-> "response", status |-> st, page |-> Page(NULL, NULL, NULL, NULL, NULL)] :
              st \in {404, 503} }
    \cup { [kind |-> "TimeoutError"], [kind |-> "TypeError"] }

\* a || b for texts: the first that is neither missing nor empty
FirstTruthy(a, b) == IF Truthy(a) THEN a ELSE IF Truthy(b) THEN b ELSE NULL

\* new URL(href, origin).toString() for an absolute href or a path
ResolveUrl(href, origin) ==
    IF StartsWith(href, Http) \/ StartsWith(href, Https) THEN href
    ELSE origin \o href

FaviconIco == <<47, 102, 97, 118, 105, 99, 111, 110, 46, 105, 99, 111>>

\* the metadata GET extracts from a page of the site at url
ExtractMetadata(page, url) ==
    [title |-> FirstTruthy(page.title, page.ogTitle),
     description |-> FirstTruthy(page.description, page.ogDescription),
     favicon |-> IF Truthy(page.icon)
                 THEN ResolveUrl(page.icon, OriginOf(url))
                 ELSE OriginOf(url) \o FaviconIco]

\* GET up to its await: the parameter is checked and the site is fetched
GET ==
    /\ routePc = "called"
    /\ IF ~Truthy(urlToFetch)
       THEN /\ response' = [status |-> 400, error |-> "URL parameter is required"]
            /\ routePc' = "responded"
            /\ UNCHANGED urlWithProtocol
       ELSE /\ urlWithProtocol' = UrlWithProtocol(urlToFetch)
            /\ IF ParsesAsUrl(urlWithProtocol')
               THEN /\ routePc' = "fetching"
                    /\ UNCHANGED response
               ELSE /\ response' = [status |-> 400, error |-> "Invalid URL provided"]
                    /\ routePc' = "responded"
    /\ UNCHANGED <<urlToFetch, upstream, pageVars, aiVars>>

\* the fetched site answers, or does not
UpstreamAnswers(answer) ==
    /\ routePc = "fetching"
    /\ upstream.kind = "none"
    /\ upstream' = answer
    /\ UNCHANGED <<urlToFetch, urlWithProtocol, routePc, response, pageVars, aiVars>>

\* GET after its await
GETReturn ==
    /\ routePc = "fetching"
    /\ upstream.kind # "none"
    /\ response' =
         IF upstream.kind = "response"
         THEN IF upstream.status \notin 200..299
              THEN [status |-> upstream.status, error |-> "Failed to fetch URL"]
              ELSE [status |-> 200,
                    metadata |-> ExtractMetadata(upstream.page, urlWithProtocol)]
         ELSE IF upstream.kind = "TimeoutError"
              THEN [status |-> 504,
                    error |-> "Internal server error: Request timed out while fetching URL metadata"]
              ELSE [status |-> 500, error |-> "Internal server error: fetch failed"]
    /\ routePc' = "responded"
    /\ UNCHANGED <<urlToFetch, urlWithProtocol, upstream, pageVars, aiVars>>

\* one request to the endpoint
RouteInit ==
    /\ PageInit
    /\ urlToFetch \in RouteUrls
    /\ urlWithProtocol = NULL
    /\ routePc = "called"
    /\ upstream = [kind |-> "none"]
    /\ response = [status |-> 0]
    /\ aiText = EmptyStr
    /\ aiEnv = [apiUrl |-> FALSE, apiKey |-> FALSE]
    /\ aiPc = "idle"
    /\ aiAnswer = [kind |-> "none"]
    /\ aiTags = <<>>

RouteNext ==
    \/ GET
    \/ \E answer \in Upstreams : UpstreamAnswers(answer)
    \/ GETReturn

SpecRoute == RouteInit /\ [][RouteNext]_vars

----------------------------------------------------------------------------
(* The tag suggestion service (src/src/lib/aiService.ts).                  *)

\* the texts the service is called with: '', ' ', 'a', 'b', 'A b'
AiTexts == { EmptyStr, <<32>>, <<97>>, <<98>>, <<65, 32, 98>> }

\* which of NEXT_PUBLIC_AI_API_URL and NEXT_PUBLIC_AI_API_KEY are set
AiEnvs == [apiUrl : BOOLEAN, apiKey : BOOLEAN]

\* the contents of choices[0].message.content: 'a', '', ' ', ',', ' A , b',
\* 'B,,a ', 'a,a', 'A b, x'
AiContents ==
    { <<97>>, EmptyStr, <<32>>, <<44>>, <<32, 65, 32, 44, 32, 98>>,
      <<66, 44, 44, 97, 32>>, <<97, 44, 97>>, <<65, 32, 98, 44, 32, 120>> }

\* the JSON bodies of a 2xx answer, by shape: no JSON, null, an object
\* without choices, choices [], choices [null], choices [{}],
\* choices [{message: {}}], and choices [{message: {content}}]
AiBodies ==
    { [shape |-> sh, content |-> EmptyStr] :
         sh \in {"invalid", "null", "noChoices", "emptyChoices", "nullChoice",
                 "noMessage", "noContent"} }
    \cup { [shape |-> "content", content |-> c] : c \in AiContents }

\* what the AI endpoint does: the connection fails, it answers with a
\* non-success status, or it answers 2xx with a body
AiAnswers ==
    { [kind |-> "TypeError"], [kind |-> "response", ok |-> FALSE] }
    \cup { [kind |-> "response", ok |-> TRUE, body |-> b] : b \in AiBodies }

\* content.split(',').map(tag => tag.trim().toLowerCase()).filter(...)
TagsOfContent(content) ==
    LET pieces == Split(Trim(content))
        mapped == [i \in DOMAIN pieces |-> ToLowerCase(Trim(pieces[i]))]
    IN  SelectSeq(mapped, LAMBDA tag : tag # EmptyStr /\ Len(tag) > 0)

\* the try block after the await: what it returns, or that it throws
TryBlock(answer) ==
    IF answer.kind # "response" THEN [throws |-> TRUE, tags |-> <<>>]
    ELSE IF ~answer.ok THEN [throws |-> TRUE, tags |-> <<>>]
    ELSE IF answer.body.shape \in {"invalid", "null", "nullChoice", "noContent"}
         THEN [throws |-> TRUE, tags |-> <<>>]
    ELSE IF answer.body.shape \in {"noChoices", "emptyChoices", "noMessage"}
         THEN [throws |-> FALSE, tags |-> <<>>]
    ELSE [throws |-> FALSE, tags |-> TagsOfContent(answer.body.content)]

\* suggestTagsFromText up to its await
suggestTagsFromText ==
    /\ aiPc = "called"
    /\ IF Trim(aiText) = EmptyStr \/ ~aiEnv.apiUrl \/ ~aiEnv.apiKey
       THEN aiPc' = "returned" /\ aiTags' = <<>>
       ELSE aiPc' = "fetching" /\ UNCHANGED aiTags
    /\ UNCHANGED <<aiText, aiEnv, aiAnswer, pageVars, routeVars>>

\* the AI endpoint answers, or the connection fails
AiAnswered(answer) ==
    /\ aiPc = "fetching"
    /\ aiAnswer.kind = "none"
    /\ aiAnswer' = answer
    /\ UNCHANGED <<aiText, aiEnv, aiPc, aiTags, pageVars, routeVars>>

\* suggestTagsFromText after its await: the try block and its catch
AiReturnRethrows ==
    /\ aiPc = "fetching"
    /\ aiAnswer.kind # "none"
    /\ IF TryBlock(aiAnswer).throws
       THEN aiPc' = "threw" /\ UNCHANGED aiTags
       ELSE aiPc' = "returned" /\ aiTags' = TryBlock(aiAnswer).tags
    /\ UNCHANGED <<aiText, aiEnv, aiAnswer, pageVars, routeVars>>

AiReturn ==
    /\ aiPc = "fetching"
    /\ aiAnswer.kind # "none"
    /\ aiPc' = "returned"
    /\ aiTags' = IF TryBlock(aiAnswer).throws THEN <<>> ELSE TryBlock(aiAnswer).tags
    /\ UNCHANGED <<aiText, aiEnv, aiAnswer, pageVars, routeVars>>

\* one call of the service
AiInit ==
    /\ PageInit
    /\ aiText \in AiTexts
    /\ aiEnv \in AiEnvs
    /\ aiPc = "called"
    /\ aiAnswer = [kind |-> "none"]
    /\ aiTags = <<>>
    /\ urlToFetch = NULL
    /\ urlWithProtocol = NULL
    /\ routePc = "idle"
    /\ upstream = [kind |-> "none"]
    /\ response = [status |-> 0]

AiNext ==
    \/ suggestTagsFromText
    \/ \E answer \in AiAnswers : AiAnswered(answer)
    \/ AiReturn

SpecAi == AiInit /\ [][AiNext]_vars

----------------------------------------------------------------------------
(* The import as a function of the document: SpecImport starts where       *)
(* handleFileChange has read a JSON file, an array of up to MaxElements    *)
(* elements, and runs the handler to its end.                              *)

\* array elements.  "A" 65, "B" 66, "a" 97, "b" 98, "x" 120, " " 32
ImportElements ==
    << JNull,
       JNum,
       \* {"title":"A"}
       JLink(JUndef, JStr(<<65>>), JUndef, JUndef, JUndef, JUndef),
       \* {"url":5}
       JLink(JNum, JUndef, JUndef, JUndef, JUndef, JUndef),
       \* {"url":""}
       JLink(JStr(EmptyStr), JUndef, JUndef, JUndef, JUndef, JUndef),
       \* {"url":"x","title":5,"description":null,"tags":"a","category":{},
       \*  "favicon_url":true}
       JLink(JStr(<<120>>), JNum, JNull, JStr(<<97>>), JObject, JBool),
       \* {"url":"xa","title":"A","description":"",
       \*  "tags":["A",""," b ",5,null," "],"category":"","favicon_url":"x"}
       JLink(JStr(<<120, 97>>), JStr(<<65>>), JStr(EmptyStr),
             JArr(<< JStr(<<65>>), JStr(EmptyStr), JStr(<<32, 98, 32>>), JNum,
                     JNull, JStr(<<32>>) >>),
             JStr(EmptyStr), JStr(<<120>>)),
       \* {"url":"x","description":"B a","tags":["a"],"category":"b"}
       JLink(JStr(<<120>>), JUndef, JStr(<<66, 32, 97>>), JArr(<< JStr(<<97>>) >>),
             JStr(<<98>>), JUndef) >>

ImportInit ==
    /\ \E n \in 1..MaxElements :
         \E f \in [1..n -> DOMAIN ImportElements] :
            importDoc = JArr([i \in 1..n |-> ImportElements[f[i]]])
    /\ importPc = "reading"
    /\ isImporting = TRUE
    /\ importRows = <<>>
    /\ toast = Toast("info", "Importing links...", -1)
    /\ user = TheUser
    /\ store = <<>>
    /\ nextId = 1
    /\ links = <<>>
    /\ linksLoading = FALSE
    /\ linksError = ""
    /\ fetches = <<>>
    /\ selectedCategory = NULL
    /\ selectedTag = NULL
    /\ searchQuery = EmptyStr
    /\ Closed
    /\ NoService
    /\ view = RenderView(<<>>, EmptyStr, NULL, NULL)

ImportNext ==
    \/ ImportParse
    \/ ImportInserted
    \/ ImportInsertFailed
    \/ \E i \in DOMAIN fetches : ServerList(i)
    \/ \E i \in DOMAIN fetches : FetchReturn(i)

SpecImport == ImportInit /\ [][ImportNext]_vars

----------------------------------------------------------------------------
(* The derived view as a pure function of (links, filter state): SpecView  *)
(* draws a record list and a filter state and renders once.                *)

\* an object as the client sends it to the table
LinkData(url, title, description, tags, category) ==
    [user_id |-> TheUser, url |-> url, title |-> title,
     description |-> description, tags |-> tags, category |-> category,
     favicon_url |-> NULL]

\* the records the view is given.  "a" 97, "b" 98, "x" 120, "A" 65, "B" 66,
\* " " 32.  The table may hold a row whose tags column is null.
ViewContents ==
    << LinkData(<<120, 97>>, NULL, NULL, <<>>, NULL),
       LinkData(<<120>>, <<65, 98>>, NULL, NoTags, <<98>>),
       LinkData(<<120>>, NULL, <<66, 32, 97>>, << <<98>>, <<97>> >>, <<66>>),
       LinkData(<<120>>, EmptyStr, NULL, << <<97, 98>>, <<97, 98>> >>, <<97, 98>>),
       LinkData(<<120>>, NULL, NULL, << EmptyStr >>, EmptyStr),
       LinkData(<<120>>, NULL, NULL, << <<65>> >>, <<98>>) >>

\* search box contents: '', ' ', 'a', ' A ', 'ab', 'b '
ViewQueries ==
    { EmptyStr, <<32>>, <<97>>, <<32, 65, 32>>, <<97, 98>>, <<98, 32>> }

ViewTagChoices == { NULL, EmptyStr, <<97>>, <<65>>, <<97, 98>> }

\* a category is selected only from the categories buttons, which hold no ''
ViewCategoryChoices == { NULL, <<98>>, <<66>>, <<97, 98>> }

ViewInit ==
    /\ \E n \in 0..MaxLinks :
         \E f \in [1..n -> DOMAIN ViewContents] :
            links = [i \in 1..n |-> ListedRow(StoredRow(ViewContents[f[i]], i, n + 1 - i))]
    /\ searchQuery \in ViewQueries
    /\ selectedTag \in ViewTagChoices
    /\ selectedCategory \in ViewCategoryChoices
    /\ view = NoView
    /\ user = TheUser
    /\ store = <<>>
    /\ nextId = 1
    /\ linksLoading = FALSE
    /\ linksError = ""
    /\ fetches = <<>>
    /\ isImporting = FALSE
    /\ importPc = "idle"
    /\ importDoc = JUndef
    /\ importRows = <<>>
    /\ Closed
    /\ NoService
    /\ toast = NoToast

\* the component renders: the useMemo values are computed from the state
Render ==
    /\ ~view.ready
    /\ view' = RenderView(links, searchQuery, selectedTag, selectedCategory)
    /\ UNCHANGED <<user, store, nextId, links, linksLoading, linksError, fetches,
                   selectedCategory, selectedTag, searchQuery,
                   isImporting, importPc, importDoc, importRows, toast>>
    /\ UNCHANGED <<formVars, deleteVars, exportVars, metaVars, serviceVars>>

ViewNext == Render

SpecView == ViewInit /\ [][ViewNext]_vars

----------------------------------------------------------------------------
(* Properties.  The operators of this section state what the derived view  *)
(* is claimed to be, without the operators of the model above.             *)

\* s with A..Z replaced by a..z
LowerCased(s) ==
    [i \in DOMAIN s |-> IF 65 <= s[i] /\ s[i] <= 90 THEN s[i] + 32 ELSE s[i]]

\* s without its leading and trailing white space
Blank(c) == c \in {9, 10, 11, 12, 13, 32}
Trimmed(s) ==
    LET inked == {i \in DOMAIN s : ~Blank(s[i])}
    IN IF inked = {} THEN <<>>
       ELSE LET first == CHOOSE i \in inked : \A j \in inked : i <= j
                last == CHOOSE i \in inked : \A j \in inked : j <= i
            IN [k \in 1..(last - first + 1) |-> s[first + k - 1]]

\* q is a substring of s
OccursIn(q, s) ==
    \E start \in 0..Len(s) :
        /\ start + Len(q) <= Len(s)
        /\ \A k \in 1..Len(q) : s[start + k] = q[k]

\* a comes strictly before b in lexicographic order of the code units
LexLess(a, b) ==
    \E k \in 1..(Len(b)) :
        /\ \A j \in 1..(k - 1) : j <= Len(a) /\ a[j] = b[j]
        /\ \/ k = Len(a) + 1
           \/ k <= Len(a) /\ a[k] < b[k]

NoDuplicates(seq) == \A i, j \in DOMAIN seq : i # j => seq[i] # seq[j]

Ascending(seq) == \A i, j \in DOMAIN seq : i < j => LexLess(seq[i], seq[j])

\* sub is seq with some elements left out
IsSubsequence(sub, seq) ==
    \E f \in [DOMAIN sub -> DOMAIN seq] :
        /\ \A i, j \in DOMAIN sub : i < j => f[i] < f[j]
        /\ \A i \in DOMAIN sub : sub[i] = seq[f[i]]

Shown(link) == link \in Range(view.filteredLinks)

TagsOf(link) == IF link.tags = NoTags THEN {} ELSE Range(link.tags)

\* the search query is non-empty after trimming
Searching == Trimmed(searchQuery) # <<>>

\* the lowercased query occurs in the lowercased url, title, description,
\* category or in a lowercased tag
QueryMatches(link) ==
    LET q == LowerCased(Trimmed(searchQuery))
    IN \/ OccursIn(q, LowerCased(link.url))
       \/ link.title # NULL /\ OccursIn(q, LowerCased(link.title))
       \/ link.description # NULL /\ OccursIn(q, LowerCased(link.description))
       \/ link.category # NULL /\ OccursIn(q, LowerCased(link.category))
       \/ \E t \in TagsOf(link) : OccursIn(q, LowerCased(t))

\* C1: whenever the trimmed search query is non-empty, filteredLinks is the
\* search result for that query, whatever selectedTag and selectedCategory hold.
C1_SearchPrecedence ==
    (view.ready /\ Searching) =>
        view.filteredLinks = FilteredLinks(links, searchQuery, NULL, NULL)

\* a search over a list on which the tag and the category that are also set
\* would each have selected something else
C1_Witness ==
    /\ view.ready /\ Searching
    /\ selectedTag # NULL /\ selectedTag # EmptyStr
    /\ selectedCategory # NULL
    /\ view.filteredLinks # <<>>
    /\ view.filteredLinks # FilteredLinks(links, EmptyStr, selectedTag, NULL)
    /\ view.filteredLinks # FilteredLinks(links, EmptyStr, NULL, selectedCategory)

\* C2: in every filter state filteredLinks is a subsequence of links: only
\* records of links, each at most once, in the order they have in links.
C2_Subsequence ==
    view.ready =>
        /\ IsSubsequence(view.filteredLinks, links)
        /\ NoDuplicates(view.filteredLinks)

\* a filter that keeps two records and drops the first of the list
C2_Witness ==
    /\ view.ready
    /\ Len(view.filteredLinks) >= 2
    /\ Len(view.filteredLinks) < Len(links)
    /\ ~Shown(links[1])

\* C3: when the trimmed query is non-empty, a record is in filteredLinks iff
\* the lowercased query is a substring of its lowercased url, title,
\* description, category or of one of its lowercased tags; a null title,
\* description, category or tags never matches.
C3_SearchMatch ==
    (view.ready /\ Searching) =>
        \A i \in DOMAIN links : Shown(links[i]) <=> QueryMatches(links[i])

\* a search that keeps one record by its category alone and drops a record
\* whose title, description and category are null, over a list that holds
\* a record whose tags are null
C3_Witness ==
    /\ view.ready /\ Searching
    /\ \E i, j, k \in DOMAIN links :
        /\ Shown(links[i])
        /\ ~OccursIn(LowerCased(Trimmed(searchQuery)), LowerCased(links[i].url))
        /\ links[i].title = NULL /\ links[i].description = NULL
        /\ \A t \in TagsOf(links[i]) :
              ~OccursIn(LowerCased(Trimmed(searchQuery)), LowerCased(t))
        /\ ~Shown(links[j])
        /\ links[j].title = NULL /\ links[j].description = NULL
        /\ links[j].category = NULL
        /\ links[k].tags = NoTags

\* C4: when the trimmed query is empty and a tag T is selected, filteredLinks
\* holds exactly the records one of whose tags equals T.
C4_TagFilter ==
    (~Searching /\ selectedTag # NULL) =>
        \A i \in DOMAIN links :
            Shown(links[i]) <=> selectedTag \in TagsOf(links[i])

\* C5: when the trimmed query is empty, no tag is selected and a category C
\* is selected, filteredLinks holds exactly the records whose category is C.
C5_CategoryFilter ==
    (view.ready /\ ~Searching /\ selectedTag = NULL /\ selectedCategory # NULL) =>
        /\ \A i \in DOMAIN links :
              Shown(links[i]) <=> links[i].category = selectedCategory
        /\ Len(view.filteredLinks) =
              Cardinality({i \in DOMAIN links : links[i].category = selectedCategory})

\* a category filter that keeps a record and drops one whose category only
\* contains the selected one, or differs from it in case
C5_Witness ==
    /\ view.ready /\ ~Searching /\ selectedTag = NULL /\ selectedCategory # NULL
    /\ view.filteredLinks # <<>>
    /\ \E j \in DOMAIN links :
        /\ ~Shown(links[j])
        /\ links[j].category # NULL
        /\ OccursIn(LowerCased(selectedCategory), LowerCased(links[j].category))

\* a category is selected only through a button of categories, which never
\* holds '' (C5 is stated for the selected categories the program can hold)
SelectedCategoryIsListed ==
    selectedCategory = NULL \/ Truthy(selectedCategory)

\* C6: when the search query is empty or white space only, and neither a tag
\* nor a category is selected, filteredLinks equals links.
C6_NoFilter ==
    (view.ready /\ ~Searching /\ selectedTag = NULL /\ selectedCategory = NULL) =>
        view.filteredLinks = links

\* a white-space query over a list one of whose records holds a space
C6_Witness ==
    /\ view.ready /\ ~Searching /\ selectedTag = NULL /\ selectedCategory = NULL
    /\ searchQuery # EmptyStr
    /\ Len(view.filteredLinks) >= 2
    /\ \E i \in DOMAIN links :
          links[i].description # NULL /\ OccursIn(searchQuery, links[i].description)

\* C7: categories and tags each hold no value twice and are in ascending
\* lexicographic order.
C7_SortedDistinct ==
    view.ready =>
        /\ NoDuplicates(view.categories) /\ Ascending(view.categories)
        /\ NoDuplicates(view.tags) /\ Ascending(view.tags)

\* two records share a tag and a category, and the values are first met in
\* another order than the sorted one
C7_Witness ==
    /\ view.ready
    /\ Len(view.tags) >= 3 /\ Len(view.categories) >= 2
    /\ \E i, j \in DOMAIN links :
        /\ i # j
        /\ TagsOf(links[i]) \cap TagsOf(links[j]) # {}
        /\ links[i].category = links[j].category /\ Truthy(links[i].category)
    /\ UniqueTags(links) # view.tags
    /\ UniqueCategories(links) # view.categories

\* C8: a value is in categories iff it is the non-null category of a record
\* of links.
C8_CategoriesComplete ==
    /\ \A i \in DOMAIN links :
          links[i].category # NULL => links[i].category \in Range(view.categories)
    /\ \A c \in Range(view.categories) :
          \E i \in DOMAIN links : links[i].category = c

\* C9 as stated: at most one of {searchQuery is non-empty, selectedTag is set,
\* selectedCategory is set} holds.
C9_AsStated ==
    Cardinality({k \in {"search", "tag", "category"} :
                    \/ k = "search" /\ searchQuery # EmptyStr
                    \/ k = "tag" /\ selectedTag # NULL
                    \/ k = "category" /\ selectedCategory # NULL}) <= 1

AtMostOneActive ==
    Cardinality({k \in {"search", "tag", "category"} :
                    \/ k = "search" /\ Searching
                    \/ k = "tag" /\ selectedTag # NULL
                    \/ k = "category" /\ selectedCategory # NULL}) <= 1

FilterState == <<searchQuery, selectedTag, selectedCategory>>

\* a step that changes the filter state leaves a query that is not blank with
\* no selection, a new selection with an empty query and no other selection,
\* and changes no selection while the query stays or becomes blank
FilterStepClears ==
    /\ (searchQuery' # searchQuery /\ Trimmed(searchQuery') # <<>>) =>
          selectedTag' = NULL /\ selectedCategory' = NULL
    /\ (selectedTag' # selectedTag /\ selectedTag' # NULL) =>
          searchQuery' = EmptyStr /\ selectedCategory' = NULL
    /\ (selectedCategory' # selectedCategory /\ selectedCategory' # NULL) =>
          searchQuery' = EmptyStr /\ selectedTag' = NULL

\* C9, amended: at most one of {searchQuery is non-empty after trimming,
\* selectedTag is set, selectedCategory is set} holds; selecting a tag or a
\* category clears the other two, and typing text that is not blank clears
\* the tag and the category.
C9_Exclusive == []AtMostOneActive /\ [][FilterStepClears]_FilterState

\* white space typed into the search box while a tag is selected
C9_Witness ==
    /\ searchQuery # EmptyStr /\ ~Searching
    /\ selectedTag # NULL

\* the root of the picked document is a JSON object, string, number or null
RootIsNoArray(doc) ==
    doc.t \in {"object", "string", "number", "null"}

\* C10: the import of a document whose root is no array ends with the format
\* error, with no insert sent to the store and no list request.
C10_NonArrayRejected ==
    [][(importPc = "reading" /\ RootIsNoArray(importDoc) /\ importPc' # "reading") =>
          /\ importPc' = "idle"
          /\ toast' = Toast("error", "Import failed: Invalid JSON format: Expected an array.", -1)
          /\ store' = store
          /\ fetches' = fetches
          /\ links' = links
          /\ ~isImporting']_vars

\* an import that ended with the format error
C10_Witness ==
    /\ toast = Toast("error", "Import failed: Invalid JSON format: Expected an array.", -1)
    /\ importPc = "idle"
    /\ ~isImporting

----------------------------------------------------------------------------
(* Import: what becomes of the elements of the array *)

\* the claimed condition on an element: it has a url, and the url is a string
HasStringUrl(e) == e.t = "object" /\ e.url.t = "string"

\* the condition the import is said to apply: a url that is a string and has
\* a character
Validates(e) == HasStringUrl(e) /\ e.url.s # <<>>

Least(S) == CHOOSE i \in S : \A j \in S : i <= j

\* the step in which the import has gone through the array it read
ArrayConverted ==
    /\ importPc = "reading" /\ importPc' # "reading"
    /\ importDoc.t = "array" /\ importDoc.a # <<>>

\* C11: an array with an element that has no url, or a url that is no
\* string (null and non-object elements included), fails with an error that
\* names the index of the first such element; the array passes validation
\* exactly when every element has a url that is a string.
C11_IndexedRejection ==
    [][ArrayConverted =>
         LET a == importDoc.a
             offending == {i \in DOMAIN a : ~HasStringUrl(a[i])}
         IN IF offending = {}
            THEN importPc' = "inserting"
            ELSE /\ importPc' = "idle"
                 /\ toast'.kind = "error"
                 /\ toast'.index = Least(offending) - 1]_vars

\* the entries of a tags array that are strings and not empty, each trimmed
CleanedTags(a) ==
    LET Kept(v) == v.t = "string" /\ v.s # <<>>
        kept == SelectSeq(a, Kept)
    IN [j \in DOMAIN kept |-> Trimmed(kept[j].s)]

\* C12: the tags of an inserted record are the string, non-empty entries of
\* the input tags array, in input order, each trimmed; so every tag sent to
\* the store is non-empty and has no white space at either end.
C12_TagsCleaned ==
    importPc = "inserting" =>
        \A i \in DOMAIN importRows :
            /\ importDoc.a[i].tags.t = "array" =>
                   importRows[i].tags = CleanedTags(importDoc.a[i].tags.a)
            /\ \A j \in DOMAIN importRows[i].tags :
                   LET tag == importRows[i].tags[j]
                   IN tag # <<>> /\ Trimmed(tag) = tag

\* the fields that hold a string or nothing
OptionalFields == {"title", "description", "category", "favicon_url"}

\* C13: a title, description, category or favicon URL that is no string is
\* null in the inserted record, a tags value that is no array gives no
\* tags, and neither makes the import fail: an array all of whose elements
\* pass the url validation goes to the insert with one record per element.
C13_NonStringsBecomeNull ==
    /\ [](importPc = "inserting" =>
            \A i \in DOMAIN importDoc.a :
                /\ \A f \in OptionalFields :
                      importDoc.a[i][f].t # "string" => importRows[i][f] = NULL
                /\ importDoc.a[i].tags.t # "array" => importRows[i].tags = <<>>)
    /\ [][(ArrayConverted /\ \A i \in DOMAIN importDoc.a : Validates(importDoc.a[i])) =>
            /\ importPc' = "inserting"
            /\ Len(importRows') = Len(importDoc.a)]_vars

\* an insert in flight for an element whose title is a number, description
\* null, category an object, favicon URL a boolean and tags a string, and an
\* element without a title
C13_Witness ==
    /\ importPc = "inserting"
    /\ \E i, j \in DOMAIN importDoc.a :
        /\ importDoc.a[i].title.t = "number"
        /\ importDoc.a[i].description.t = "null"
        /\ importDoc.a[i].category.t = "object"
        /\ importDoc.a[i].favicon_url.t = "boolean"
        /\ importDoc.a[i].tags.t = "string"
        /\ importRows[i].title = NULL /\ importRows[i].tags = <<>>
        /\ importDoc.a[j].title.t = "undefined"
        /\ importRows[j].title = NULL

\* C15: if an element fails validation no insert is sent, not even for the
\* elements before it; if all N > 0 elements pass, one insert carries the N
\* records in input order, each owned by the current user; if that insert
\* fails the import is reported as failed and no list request is sent.
C15_AllOrNothing ==
    /\ [][ArrayConverted =>
            LET a == importDoc.a
            IN IF \E i \in DOMAIN a : ~Validates(a[i])
               THEN /\ importPc' = "idle" /\ importRows' = <<>>
                    /\ toast'.kind = "error"
                    /\ store' = store /\ fetches' = fetches
               ELSE /\ importPc' = "inserting"
                    /\ Len(importRows') = Len(a)
                    /\ \A i \in DOMAIN a :
                          /\ importRows'[i].url = a[i].url.s
                          /\ importRows'[i].user_id = user
                    /\ store' = store]_vars
    /\ [][(importPc = "inserting" /\ importPc' # "inserting") =>
            \/ /\ Len(store') = Len(store) + Len(importRows)
               /\ \A i \in DOMAIN importRows :
                     /\ store'[Len(store) + i].url = importRows[i].url
                     /\ store'[Len(store) + i].user_id = importRows[i].user_id
               /\ toast'.kind = "success"
            \/ /\ store' = store
               /\ toast'.kind = "error"
               /\ fetches' = fetches /\ links' = links
               /\ linksLoading' = linksLoading]_vars
    /\ [][store' # store => importPc = "inserting"]_vars

\* two records of one import are in the table, in the order of the file
C15_Witness ==
    /\ toast.kind = "success"
    /\ Len(store) = 2
    /\ store[1].created_at = store[2].created_at
    /\ store[1].url # store[2].url

\* a record sent to the store has no empty title, description or category
NoEmptyText(r) ==
    /\ r.title # <<>>
    /\ r.description # <<>>
    /\ r.category # <<>>

\* C14: in every record the client sends to the store, by the add form, by
\* the edit form or by import, each of title, description and category is
\* null or a non-empty string.
C14_EmptyIsAbsent ==
    /\ \A i \in DOMAIN submits : NoEmptyText(submits[i].data)
    /\ \A i \in DOMAIN importRows : NoEmptyText(importRows[i])

----------------------------------------------------------------------------
(* Export *)

\* the exported fields of a row of the table
FieldsOfRow(row) ==
    [url |-> row.url, title |-> row.title, description |-> row.description,
     tags |-> row.tags, category |-> row.category,
     favicon_url |-> row.favicon_url, created_at |-> <<48 + row.created_at>>]

\* the value of a string-or-null field of an exported object
TextOf(v) == IF v.t = "string" THEN v.s ELSE <<-1>>

\* the exported fields as an object of the file holds them
FieldsOfObject(o) ==
    [url |-> TextOf(o.url), title |-> TextOf(o.title),
     description |-> TextOf(o.description),
     tags |-> IF o.tags.t = "array"
              THEN [i \in DOMAIN o.tags.a |-> TextOf(o.tags.a[i])]
              ELSE << <<-1>> >>,
     category |-> TextOf(o.category),
     favicon_url |-> TextOf(o.favicon_url), created_at |-> TextOf(o.created_at)]

\* C16: importing the exported file, unmodified, into the empty table gives
\* a set of records equal to the exported set in url, title, description,
\* tags, category, favicon URL and creation timestamp.
C16_RoundTrip ==
    [][(/\ savedFile # NoFile
        /\ importPc = "inserting" /\ importDoc = savedFile.doc
        /\ store = <<>> /\ store' # <<>>) =>
          {FieldsOfRow(store'[i]) : i \in DOMAIN store'} =
             {FieldsOfObject(savedFile.doc.a[j]) : j \in DOMAIN savedFile.doc.a}]_vars

\* the rows of the signed-in user
OwnRows == {i \in DOMAIN store : store[i].user_id = TheUser}

ExportedNames ==
    {"t", "url", "title", "description", "tags", "category", "favicon_url",
     "created_at"}

\* C17: a file is written only when the query succeeds with at least one
\* record, and each of its objects holds url, title, description, tags,
\* category, favicon URL and creation timestamp, not id or owner; a
\* successful query with no record writes no file and warns, and only a
\* failed query ends in an error.
C17_ExportOutcomes ==
    /\ [](savedFile # NoFile =>
            /\ savedFile.doc.a # <<>>
            /\ \A i \in DOMAIN savedFile.doc.a :
                  DOMAIN savedFile.doc.a[i] = ExportedNames)
    /\ [][ExportAnswered =>
            IF OwnRows = {}
            THEN toast'.kind = "warning" /\ savedFile' = savedFile
            ELSE /\ toast'.kind = "success"
                 /\ Len(savedFile'.doc.a) = Cardinality(OwnRows)
                 /\ {FieldsOfObject(savedFile'.doc.a[j]) : j \in DOMAIN savedFile'.doc.a}
                       = {FieldsOfRow(store[i]) : i \in OwnRows}]_vars
    /\ [][ExportFailed => toast'.kind = "error" /\ savedFile' = savedFile]_vars
    /\ [][(exportPc = "sent" /\ exportPc' = "idle" /\ toast'.kind = "error") =>
            ExportFailed]_vars
    /\ [][savedFile' # savedFile => ExportAnswered /\ OwnRows # {}]_vars

\* a file was written, and a later export of the emptied table warned
C17_Witness ==
    /\ savedFile # NoFile
    /\ toast.kind = "warning"
    /\ store = <<>>

----------------------------------------------------------------------------
(* Remote calls that fail, and the refresh after those that succeed *)

\* C18: a failed list, insert, update or delete call is not repeated, puts
\* a message into linksError, formError or deleteError, and leaves links as
\* it is; a failed insert or update leaves the dialog mode, a failed delete
\* leaves linkToDelete.
C18_FailureIsReported ==
    /\ [][\A i \in DOMAIN fetches :
            (FetchReturn(i) /\ fetches[i].phase = "error") =>
                /\ linksError' # ""
                /\ links' = links
                /\ Len(fetches') = Len(fetches) - 1
                /\ store' = store]_vars
    /\ [][\A i \in DOMAIN submits :
            SubmitFailed(i) =>
                /\ formError' # ""
                /\ links' = links
                /\ dialogMode' = dialogMode
                /\ Len(submits') = Len(submits) - 1
                /\ fetches' = fetches
                /\ store' = store]_vars
    /\ [][DeleteFailed =>
            /\ deleteError' # ""
            /\ links' = links
            /\ linkToDelete' = linkToDelete
            /\ deleteCall' = NoId
            /\ fetches' = fetches
            /\ store' = store]_vars

\* the edit dialog is open with the message of a failed update
C18_Witness ==
    /\ dialogMode = "edit"
    /\ formError = "Failed to update link. Unknown error"
    /\ submits = <<>>
    /\ links # <<>>

\* the step requests the list of the signed-in user
ListRequested ==
    /\ Len(fetches') = Len(fetches) + 1
    /\ fetches'[Len(fetches')].phase = "sent"
    /\ fetches'[Len(fetches')].owner = TheUser
    /\ \A i \in DOMAIN fetches : fetches'[i] = fetches[i]

\* C19: every successful add, edit, delete and import requests the full
\* list of the signed-in user, and links changes only by being replaced
\* with the data of a list request that succeeded.
C19_WholesaleRefresh ==
    /\ [][(\E i \in DOMAIN submits : SubmitDone(i)) => ListRequested]_vars
    /\ [][DeleteDone => ListRequested]_vars
    /\ [][ImportInserted => ListRequested]_vars
    /\ [][store' # store => ListRequested]_vars
    /\ [][links' # links =>
            \E i \in DOMAIN fetches :
                /\ fetches[i].phase = "ok"
                /\ links' = fetches[i].data
                /\ fetches' = RemoveAt(fetches, i)]_vars

\* two rows were added and one of them deleted, no list request is
\* outstanding, and links is the list the table gave after that
C19_Witness ==
    /\ nextId > 2
    /\ Len(store) = 1
    /\ fetches = <<>>
    /\ Len(links) = 1 /\ links[1].id = store[1].id

\* C20: submitting the form with an empty URL, or without a user, sets
\* formError, sends no call, and leaves links, the dialog mode and the
\* submitting flag as they are.
C20_RejectedSubmit ==
    [][(handleFormSubmit /\ (formUrl = <<>> \/ user = <<-1>>)) =>
          /\ formError' # ""
          /\ submits' = submits
          /\ fetches' = fetches
          /\ store' = store
          /\ links' = links
          /\ dialogMode' = dialogMode
          /\ ~isSubmitting']_vars

\* the add dialog shows that the URL is required, with nothing sent
C20_Witness ==
    /\ dialogMode = "add"
    /\ formError = "URL is required."
    /\ formUrl = <<>>
    /\ ~isSubmitting
    /\ submits = <<>>

----------------------------------------------------------------------------
(* The metadata endpoint *)

IsLetter(c) == c \in 65..90 \/ c \in 97..122

\* where the "://" of a scheme stands in u, if u begins with letters
\* followed by "://"
SchemeEnds(u) ==
    {k \in 2..(Len(u) - 2) :
        /\ u[k] = 58 /\ u[k + 1] = 47 /\ u[k + 2] = 47
        /\ \A j \in 1..(k - 1) : IsLetter(u[j])}

GivenWithScheme(u) == SchemeEnds(u) # {}

\* the host a URL text names: what follows the scheme, up to the first "/"
NamedHost(u) ==
    LET rest == IF GivenWithScheme(u)
                THEN SubSeq(u, (CHOOSE k \in SchemeEnds(u) : TRUE) + 3, Len(u))
                ELSE u
        cut == {i \in DOMAIN rest : rest[i] = 47}
    IN  IF cut = {} THEN rest
        ELSE SubSeq(rest, 1, (CHOOSE i \in cut : \A j \in cut : i <= j) - 1)

Malformed(u) == NamedHost(u) = <<>> \/ \E i \in DOMAIN NamedHost(u) : NamedHost(u)[i] = 32

\* C21: a request without url parameter or with a malformed URL is answered
\* 400 and nothing is fetched; a non-success answer of the site gives its
\* status, a timeout 504, another failure 500, and a success 200 with the
\* metadata; http:// is put before the URL exactly when the URL was given
\* without a scheme.
C21_OneResponse ==
    routePc = "responded" =>
        /\ (urlToFetch = <<-1>> \/ Malformed(urlToFetch)) =>
              response.status = 400 /\ upstream.kind = "none"
        /\ upstream.kind = "response" =>
              IF upstream.status \in 200..299
              THEN response.status = 200 /\ "metadata" \in DOMAIN response
              ELSE response.status = upstream.status
        /\ upstream.kind = "TimeoutError" => response.status = 504
        /\ upstream.kind = "TypeError" => response.status = 500
        /\ urlWithProtocol # <<-1>> =>
              /\ urlWithProtocol \in {urlToFetch, <<104, 116, 116, 112, 58, 47, 47>> \o urlToFetch}
              /\ (urlWithProtocol # urlToFetch) <=> ~GivenWithScheme(urlToFetch)

----------------------------------------------------------------------------
(* The tag suggestion service *)

\* the k-th comma of c
CommaAt(c, k) ==
    CHOOSE i \in DOMAIN c :
        c[i] = 44 /\ Cardinality({j \in 1..(i - 1) : c[j] = 44}) = k - 1

\* the texts between the commas of c, each trimmed and in lower case
PiecesOf(c) ==
    LET n == Cardinality({i \in DOMAIN c : c[i] = 44}) + 1
        from(k) == IF k = 1 THEN 1 ELSE CommaAt(c, k - 1) + 1
        to(k) == IF k = n THEN Len(c) ELSE CommaAt(c, k) - 1
    IN  [k \in 1..n |-> LowerCased(Trimmed(SubSeq(c, from(k), to(k))))]

ExpectedTags(c) == SelectSeq(PiecesOf(c), LAMBDA piece : piece # <<>>)

\* the call reaches the AI endpoint and is answered 2xx with a content
Suggested ==
    /\ aiAnswer.kind = "response"
    /\ aiAnswer.ok
    /\ aiAnswer.body.shape = "content"

\* C22: suggestTagsFromText never throws; it returns the empty list for a
\* blank text, a missing endpoint or key, a failed connection, a
\* non-success status and a body without choices[0].message.content, and
\* otherwise the pieces of the content between the commas, in their order,
\* in lower case, trimmed, without the empty ones.
C22_NeverFails ==
    /\ aiPc \in {"called", "fetching", "returned"}
    /\ aiPc = "returned" =>
          /\ aiTags = IF Suggested THEN ExpectedTags(aiAnswer.body.content) ELSE <<>>
          /\ \A i \in DOMAIN aiTags :
                /\ aiTags[i] # <<>>
                /\ aiTags[i] = LowerCased(Trimmed(aiTags[i]))

\* the content ' A , b' came back as 'a', 'b'
C22_Witness ==
    /\ aiPc = "returned"
    /\ Suggested
    /\ aiAnswer.body.content = <<32, 65, 32, 44, 32, 98>>
    /\ aiTags = << <<97>>, <<98>> >>

----------------------------------------------------------------------------
(* Overlapping operations *)

\* C23: while an insert or update call of the form is in flight,
\* isSubmitting is true (so the submit button is disabled), and there is
\* never a second such call in flight, whatever the user does meanwhile.
C23_NoDoubleSubmit ==
    /\ submits # <<>> => isSubmitting
    /\ Len(submits) <= 1

\* C24: isImporting and isExporting are never true together, and an import
\* or an export starts only when both are false.
C24_ImportExportExclusive ==
    /\ [](~(isImporting /\ isExporting))
    /\ [][((importPc = "idle" /\ importPc' # "idle")
            \/ (exportPc = "idle" /\ exportPc' # "idle")) =>
              (~isImporting /\ ~isExporting)]_vars

\* an import is running after an export has written its file
C24_Witness ==
    /\ isImporting /\ importPc = "reading"
    /\ ~isExporting
    /\ savedFile # NoFile

\* C25: when no remote call is in flight and no list request has failed,
\* links is the list of the user's rows as the table holds them now,
\* whatever the order in which the answers of overlapping list requests
\* came in.
C25_FreshCache ==
    (user # <<-1>> /\ InFlight = 0 /\ linksError = "") =>
        links = ListByOwner(store, user)

----------------------------------------------------------------------------
(* The edit dialog and the metadata fetch *)

\* what the dialog shows for a text column and for the tags of a record
ShownText(v) == IF v = <<-1>> THEN <<>> ELSE v

ShownTags(tags) == IF tags = << <<-1>> >> THEN <<>> ELSE Join(tags)

\* the form shows the record as the edit dialog opened it
Untouched(row) ==
    /\ formUrl = row.url
    /\ formTitle = ShownText(row.title)
    /\ formDesc = ShownText(row.description)
    /\ formTags = ShownTags(row.tags)
    /\ formCategory = ShownText(row.category)

\* the step issues an insert or update call of the form
SubmitIssued == Len(submits') = Len(submits) + 1

\* C26: an update issued from the edit dialog whose fields are as the dialog
\* was opened with them carries the record's own url, title, description,
\* tags, category and favicon URL.
C26_EditPreserves ==
    [][\A k \in DOMAIN links :
          (/\ dialogMode = "edit" /\ formLinkId = links[k].id
           /\ Untouched(links[k])
           /\ SubmitIssued) =>
              LET sent == submits'[Len(submits')].data
              IN  /\ sent.url = links[k].url
                  /\ sent.title = links[k].title
                  /\ sent.description = links[k].description
                  /\ sent.tags = links[k].tags
                  /\ sent.category = links[k].category
                  /\ sent.favicon_url = links[k].favicon_url]_vars

\* C27: the answer of a metadata fetch changes neither formTitle nor
\* formFaviconUrl when the dialog has been closed, or shows another URL than
\* the one the fetch was made for, and it never replaces a title that is
\* not empty.
C27_MetadataForItsForm ==
    [][\A i \in DOMAIN metaCalls : \A m \in MetadataAnswers :
          MetadataAnswered(i, m) =>
              /\ (dialogMode = NoMode \/ formUrl # metaCalls[i].url) =>
                    (formTitle' = formTitle /\ formFaviconUrl' = formFaviconUrl)
              /\ formTitle # <<>> => formTitle' = formTitle]_vars

----------------------------------------------------------------------------
(* The heading and the selection *)

\* the branch of the filter the state calls for
AppliedFilter ==
    IF Trimmed(LowerCased(searchQuery)) # <<>> THEN "Search results"
    ELSE IF selectedTag \notin {<<-1>>, <<>>} THEN "Tag"
    ELSE IF selectedCategory \notin {<<-1>>, <<>>} THEN "Category"
    ELSE "All Links"

\* C28: the heading names the filter that gave filteredLinks: search
\* results for the search branch, the tag for the tag branch, the category
\* for the category branch, All Links when nothing was filtered.
C28_HeadingAgrees ==
    view.ready =>
        /\ view.heading.kind = AppliedFilter
        /\ AppliedFilter = "Tag" => view.heading.text = selectedTag
        /\ AppliedFilter = "Category" => view.heading.text = selectedCategory

\* C29: a selected tag is one of tags and a selected category one of
\* categories, whatever was added, deleted or refreshed since it was
\* selected; so a tag or category filter shows a record whenever links
\* holds one.
C29_SelectionListed ==
    view.ready =>
        /\ selectedTag # <<-1>> => \E i \in DOMAIN view.tags : view.tags[i] = selectedTag
        /\ selectedCategory # <<-1>> =>
              \E i \in DOMAIN view.categories : view.categories[i] = selectedCategory
        /\ (/\ AppliedFilter \in {"Tag", "Category"}
            /\ links # <<>>) => view.filteredLinks # <<>>

----------------------------------------------------------------------------
(* Busy flags *)

\* C30: every busy flag that is set is cleared again once the call of its
\* operation is answered, with success or with failure, or the operation
\* returns early.
C30_FlagsReleased ==
    /\ (user # <<-1>> /\ linksLoading) ~> ~linksLoading
    /\ isSubmitting ~> ~isSubmitting
    /\ isDeleting ~> ~isDeleting
    /\ isImporting ~> ~isImporting
    /\ isExporting ~> ~isExporting
    /\ isFetchingMetadata ~> ~isFetchingMetadata
    /\ suggestingTags ~> ~suggestingTags

\* a record was created, its deletion failed, and no flag is left set
C30_Witness ==
    /\ deleteError = "Failed to delete link."
    /\ store # <<>>
    /\ ~linksLoading /\ ~isSubmitting /\ ~isDeleting /\ ~isImporting
    /\ ~isExporting /\ ~isFetchingMetadata /\ ~suggestingTags

====
